---- MODULE Spec2Model ----
(***************************************************************************)
(* Build planner and artifact cache of the Solidity compiler driver        *)
(* (class Compiler, compiler.ts) : planning loop, cache gate, version      *)
(* selection, concurrent dispatch and artifact writer.                     *)
(*                                                                         *)
(* Strings that the code takes apart are modelled by their parts:          *)
(*   a full version string  "v0.6.12+commit.27d51765"  is the record       *)
(*       [v |-> TRUE, short |-> <<0, 6, 12>>, commit |-> "27d51765"]       *)
(*   a short version "0.6.12" is the tuple <<0, 6, 12>>                    *)
(*   a range "^0.6.0" is [op |-> "^", ver |-> <<0, 6, 0>>]                 *)
(*   an artifact file "<file>-<contract>.json" is the pair <<file, contract>>*)
(* A source file is identified by its absolute path; the basename without  *)
(* extension of the path "…/A.sol" is the string "A", and the model uses   *)
(* that string for both (basenames are unique in the modelled project).    *)
(***************************************************************************)
EXTENDS Integers, Sequences, FiniteSets, TLC

(***************************************************************************)
(* Bounds                                                                  *)
(***************************************************************************)
MaxNames == 3        \* longest list of requested contract names
MaxRuns == 2         \* consecutive runs of compileAsync on one project
MaxBuilds == 3       \* builds of one watchAsync, the first one included

(***************************************************************************)
(* Program constants                                                       *)
(***************************************************************************)
\* constants.LATEST_ARTIFACT_VERSION, and a schema version an older artifact holds
LATEST_ARTIFACT_VERSION == "2.0.0"
OLD_ARTIFACT_VERSION == "1.0.0"

(***************************************************************************)
(* The project : S4 of the specification, A.sol and B.sol import L.sol     *)
(***************************************************************************)
Files == {"A", "B", "L"}

imports == [f \in Files |-> IF f \in {"A", "B"} THEN <<"L">> ELSE <<>>]

\* a requested name that no resolver of the chain finds
MissingName == "M"

\* what a file declares : a contract of the name of the file, a contract of
\* another name, or no contract at all (only a pragma, imports, structs)
Declarations == {"named", "misnamed", "none"}

\* the name a misnamed file gives its contract
OtherContractName == "Other"

\* L.sol lives in a package under node_modules, A.sol and B.sol in the project
packageOf == [f \in Files |-> IF f = "L" THEN "@lib" ELSE ""]

\* pragma ranges that occur in the sources
Ranges ==
    { [op |-> "^", ver |-> <<0, 5, 0>>],
      [op |-> "^", ver |-> <<0, 6, 0>>],
      [op |-> "^", ver |-> <<9, 9, 9>>],
      [op |-> ">=", ver |-> <<0, 5, 0>>] }

\* the pragma of a library that accepts every release from 0.5.0 on
OpenPragma == [op |-> ">=", ver |-> <<0, 5, 0>>]

\* the roots pick one family; the library L.sol accepts every release, or
\* only those of the 0.5 family
Pragmas ==
    { p \in [Files -> Ranges] :
        /\ p["L"] \in {OpenPragma, [op |-> "^", ver |-> <<0, 5, 0>>]}
        /\ p["A"].op = "^"
        /\ p["B"].op = "^" }

\* solcJSVersionList.releases, in the key order of the published list
releases ==
    << [short |-> <<0, 6, 12>>, full |-> [v |-> TRUE, short |-> <<0, 6, 12>>, commit |-> "27d51765"]],
       [short |-> <<0, 5, 16>>, full |-> [v |-> TRUE, short |-> <<0, 5, 16>>, commit |-> "9c3226ce"]],
       [short |-> <<0, 5, 17>>, full |-> [v |-> TRUE, short |-> <<0, 5, 17>>, commit |-> "d19bba13"]] >>

\* the configured compilerSettings and another value an old artifact may hold
ConfiguredSettings == "settings-1"
OtherSettings == "settings-2"

\* values the version pins are drawn from (both conform to solcVersionSchema)
EnvPinVersion == [v |-> FALSE, short |-> <<0, 6, 12>>, commit |-> "27d51765"]
OptPinVersion == [v |-> TRUE, short |-> <<0, 5, 17>>, commit |-> "d19bba13"]

\* a version of no wrapper family (it conforms to solcVersionSchema too)
UnsupportedVersion == [v |-> FALSE, short |-> <<0, 9, 1>>, commit |-> "0a1b2c3"]

\* a version of the oldest wrapper family, "0.1."
LegacyVersion == [v |-> FALSE, short |-> <<0, 1, 7>>, commit |-> "b4e666cc"]

(***************************************************************************)
(* "undefined" of each type                                                *)
(***************************************************************************)
NoShortVersion == <<>>
NoVersion == [v |-> FALSE, short |-> NoShortVersion, commit |-> ""]
NoHash == <<>>
NoOutput == [path |-> "", solcVersion |-> NoVersion, unit |-> {}]
NoStandardInput == [settings |-> "", sources |-> {}, remappings |-> {}]
NoArtifact ==
    [ schemaVersion |-> "", contractName |-> "", compilerOutput |-> NoOutput,
      sources |-> {}, sourceTreeHashHex |-> NoHash, standardInput |-> NoStandardInput,
      compiler |-> [name |-> "", version |-> NoVersion, settings |-> ""] ]

(***************************************************************************)
(* semver : comparison, range test and maxSatisfying                       *)
(***************************************************************************)
\* SemVer.compare : -1, 0 or 1, major first, then minor, then patch
compare(a, b) ==
    IF a[1] # b[1] THEN (IF a[1] < b[1] THEN -1 ELSE 1)
    ELSE IF a[2] # b[2] THEN (IF a[2] < b[2] THEN -1 ELSE 1)
    ELSE IF a[3] # b[3] THEN (IF a[3] < b[3] THEN -1 ELSE 1)
    ELSE 0

\* the exclusive upper end of a caret range : the next version that changes
\* the left-most non-zero component
caretUpper(ver) ==
    IF ver[1] > 0 THEN <<ver[1] + 1, 0, 0>>
    ELSE IF ver[2] > 0 THEN <<0, ver[2] + 1, 0>>
    ELSE <<0, 0, ver[3] + 1>>

\* Range.test
satisfies(version, range) ==
    IF range.op = "^"
    THEN compare(version, range.ver) >= 0 /\ compare(version, caretUpper(range.ver)) < 0
    ELSE compare(version, range.ver) >= 0

\* semver.maxSatisfying(versions, range) : one pass over the list that keeps
\* the greatest version passing the range test so far; null when none does
RECURSIVE maxSatisfyingFrom(_, _, _, _)
maxSatisfyingFrom(versions, range, i, max) ==
    IF i > Len(versions) THEN max
    ELSE IF satisfies(versions[i], range)
              /\ (max = NoShortVersion \/ compare(max, versions[i]) = -1)
         THEN maxSatisfyingFrom(versions, range, i + 1, versions[i])
         ELSE maxSatisfyingFrom(versions, range, i + 1, max)

maxSatisfying(versions, range) == maxSatisfyingFrom(versions, range, 1, NoShortVersion)

(***************************************************************************)
(* utils/compiler                                                          *)
(***************************************************************************)
\* normalizeSolcVersion : strips the leading "v"
normalizeSolcVersion(fullSolcVersion) == [fullSolcVersion EXCEPT !.v = FALSE]

\* _.keys(solcJSVersionList.releases)
releaseKeys == [i \in 1..Len(releases) |-> releases[i].short]

\* solcJSVersionList.releases[solidityVersion]
releaseOf(solidityVersion) ==
    releases[CHOOSE i \in 1..Len(releases) : releases[i].short = solidityVersion].full

\* parseSolidityVersionRange(source) : the range of the pragma of the source
parseSolidityVersionRange(source) == source.pragma

\* getSolcJSVersionFromPath(process.env.SOLCJS_PATH)
getSolcJSVersionFromPath(modulePath) == modulePath.version

\* path.basename(name, '.sol')
basename(name) == name

(***************************************************************************)
(* sol-resolver                                                            *)
(***************************************************************************)
\* the fallthrough of resolvers is exhausted : NameResolutionError
resolveThrows(name) == name \notin Files

\* Resolver.resolve(name) : the ContractSource of a file of the project
resolve(project, name) ==
    [path |-> name, absolutePath |-> name,
     source |-> [pragma |-> project[name], imports |-> imports[name]]]

\* the depth-first walk of getSourceTreeHash through a SpyResolver : the
\* files in the order of their first visit, none visited twice
RECURSIVE visit(_, _)
RECURSIVE visitAll(_, _)
visit(f, visited) ==
    IF \E i \in 1..Len(visited) : visited[i] = f THEN visited
    ELSE visitAll(imports[f], Append(visited, f))
visitAll(deps, visited) ==
    IF deps = <<>> THEN visited
    ELSE visitAll(Tail(deps), visit(Head(deps), visited))

\* spyResolver.resolvedContractSources after the walk from a root, as the
\* keys they add to a unit (a repeated key is not added again)
resolvedContractSources(root) == visit(root, <<>>)

Range(seq) == {seq[i] : i \in 1..Len(seq)}

\* the same walk through a project given by the import statements of its
\* files, in the order in which each file states them
RECURSIVE visitIn(_, _, _)
RECURSIVE visitAllIn(_, _, _)
visitIn(importsOf, f, visited) ==
    IF \E i \in 1..Len(visited) : visited[i] = f THEN visited
    ELSE visitAllIn(importsOf, importsOf[f], Append(visited, f))
visitAllIn(importsOf, deps, visited) ==
    IF deps = <<>> THEN visited
    ELSE visitAllIn(importsOf, Tail(deps), visitIn(importsOf, Head(deps), visited))

\* H = digest(source_bytes) : the bytes of a file are its path-independent
\* text, of which the import statements, in their order, are the part that
\* varies; the digest is free of collisions
sourceDigest(importsOf, f) == [file |-> f, importStatements |-> importsOf[f]]

\* a hash that forgets the order : the set of the files visited
sourceTreeHashUnordered(importsOf, root) ==
    << Range(visitIn(importsOf, root, <<>>)) >>

\* the tree hash digest(concat(H_i for i in visit_order)) of a root in a
\* project given by its import statements; the digest is taken to be free
\* of collisions, so it is the sequence it digests
sourceTreeHashIn(importsOf, root) ==
    [ k \in 1..Len(visitIn(importsOf, root, <<>>)) |->
        sourceDigest(importsOf, visitIn(importsOf, root, <<>>)[k]) ]

\* getSourceTreeHash(spyResolver, path) in the project of the model
getSourceTreeHash(root) == sourceTreeHashIn(imports, root)

\* getContractArtifactIfExistsAsync(artifactsDir, contractName) : the
\* artifact stored for the requested name, if any
getContractArtifactIfExistsAsync(dir, contractName) ==
    dir[<<basename(contractName), basename(contractName)>>]

(***************************************************************************)
(* solc wrappers                                                           *)
(***************************************************************************)
\* the first decimal digit of a number
RECURSIVE leadingDigit(_)
leadingDigit(n) == IF n < 10 THEN n ELSE leadingDigit(n \div 10)

\* the wrapper families of _createSolcInstance, by startsWith on the
\* normalized version : "0.1." to "0.5." end with a dot, so the minor is the
\* digit itself; "0.6", "0.7" and "0.8" do not, so the minor starts with it
hasSolcWrapper(normalizedVersion) ==
    /\ normalizedVersion.short # NoShortVersion
    /\ normalizedVersion.short[1] = 0
    /\ \/ normalizedVersion.short[2] \in 1..5
       \/ leadingDigit(normalizedVersion.short[2]) \in 6..8

\* SolcWrapper.areCompilerSettingsDifferent(settings)
areCompilerSettingsDifferent(settings) == settings # ConfiguredSettings

\* getDependencyNameToPackagePath(contractSources) : the package prefixes of
\* the sources that live in a package (the prefix stands for its mapping)
getDependencyNameToPackagePath(contractSources) ==
    { packageOf[f] : f \in { g \in contractSources : packageOf[g] # "" } }

\* the contracts solc compiles from a file, by name. The back-end is a pure
\* function of what it is given, and nothing more is assumed of it : a
\* compiled contract stands for the file, the compiler and the files of the
\* unit it was compiled from
contractsDeclaredIn(declarations, contractPath, solcVersion, contracts) ==
    [ contractName \in { IF declarations[contractPath] = "named"
                         THEN basename(contractPath) ELSE OtherContractName } |->
        [path |-> contractPath, solcVersion |-> normalizeSolcVersion(solcVersion),
         unit |-> Range(contracts)] ]

\* the wrapper of the family "0.1." compiles a single source
isSingleSourceFamily(solcVersion) ==
    /\ solcVersion.short # NoShortVersion
    /\ solcVersion.short[1] = 0
    /\ solcVersion.short[2] = 1

\* the output of a back-end of the family "0.1." : the first source of the
\* unit under the key '' of sources, and what it declares under the key ''
\* of contracts
singleSourceOutput(declarations, solcVersion, contracts) ==
    [ sources |-> {""},
      sourceKeys |-> <<"">>,
      contracts |->
          [p \in (IF declarations[contracts[1]] # "none" THEN {""} ELSE {}) |->
              contractsDeclaredIn(declarations, contracts[1], solcVersion, contracts)] ]

\* SolcWrapper.compileAsync(contracts, importRemappings) when it succeeds :
\* the standard input sent and the standard output. The output has an entry
\* in sources for every file of the unit (sourceKeys is Object.keys of it)
\* and an entry in contracts for every file that declares a contract; the
\* output of the family "0.1." has the one key ''
solcCompile(declarations, solcVersion, contracts, importRemappings) ==
    [ input |-> [settings |-> ConfiguredSettings, sources |-> Range(contracts),
                 remappings |-> importRemappings],
      output |-> IF isSingleSourceFamily(solcVersion)
                 THEN singleSourceOutput(declarations, solcVersion, contracts)
                 ELSE [ sources |-> Range(contracts),
                        sourceKeys |-> contracts,
                        contracts |->
                            [p \in { q \in Range(contracts) : declarations[q] # "none" } |->
                                contractsDeclaredIn(declarations, p, solcVersion, contracts)] ] ]

(***************************************************************************)
(* State                                                                   *)
(***************************************************************************)
VARIABLES
    env,                        \* process.env : SOLCJS_PATH
    opts,                       \* CompilerOptions : contracts, solcVersion, shouldCompileIndependently
    sources,                    \* the pragma of every file of the project
    solcVersionIfExists,        \* Compiler._solcVersionIfExists
    solcWrappersByVersion,      \* Compiler._solcWrappersByVersion : its keys, in insertion order
    artifactsDir,               \* the files of the artifacts directory
    run,                        \* number of the current run of compileAsync
    pc,                         \* where _compileContractsAsync stands
    error,                      \* the error that ended the run, if any
    nameIdx,                    \* index in contractNames of the planning loop
    compilationUnitsByVersion,  \* the plan, keys in insertion order
    contractPathToData,
    planned,                    \* the version selected for each rebuilt root, in order
    compilationResults,         \* state of each back-end invocation
    artifactCache,              \* PersistedArtifactCache of the writer
    pos,                        \* <<i, j, k, w>> of the writer : version, unit, path, and the write awaited (0 : none)
    written,                    \* artifact files written in this run, in order
    gateInput,                  \* argument of a call of _shouldCompile on its own
    gateResult,                 \* what that call returned
    declared,                   \* what every file of the project declares
    watchState,                 \* where watchAsync stands, "off" outside watch mode
    watchedPaths,               \* the paths the chokidar watcher watches
    buildsInFlight,             \* calls of onFileChangedAsync that have not returned
    missedChange,               \* a file changed after the build in flight read it
    unwatchStopsWatching,       \* whether watcher.unwatch('*') drops the watched paths
    pendingBuilds,              \* the other calls of compileAsync in flight, each with its locals
    hashInput,                  \* arguments of getSourceTreeHash applied on its own
    hashResult,                 \* what it returned, before and after the edit of a file
    driver,                     \* the class that was constructed : Compiler or JSONCompiler
    shouldPersist,              \* _opts.shouldPersist of the call of _compileContractsAsync
    otherModeArtifacts,         \* the artifacts directory a run in the other mode left
    preFetched,                 \* the calls of preFetchCSolcJSBinariesAsync in this run
    returned,                   \* what the public method of the driver returned
    earlierRun,                 \* the pin of the run before the pin was changed, and the roots it skipped
    resolverInput,              \* the contracts directory and the lookup name given to JSONNameResolver
    resolverResult              \* what resolveIfExists and getAll returned

vars ==
    << env, opts, sources, solcVersionIfExists, solcWrappersByVersion, artifactsDir,
       run, pc, error, nameIdx, compilationUnitsByVersion, contractPathToData, planned,
       compilationResults, artifactCache, pos, written, gateInput, gateResult,
       declared, watchState, watchedPaths, buildsInFlight, missedChange,
       unwatchStopsWatching, pendingBuilds,
       hashInput, hashResult, driver, shouldPersist, otherModeArtifacts, preFetched,
       returned, earlierRun, resolverInput, resolverResult >>

\* the state of the watcher
watch ==
    << watchState, watchedPaths, buildsInFlight, missedChange, unwatchStopsWatching,
       pendingBuilds >>

\* what no step of _compileContractsAsync changes
config ==
    << env, opts, sources, declared, solcVersionIfExists, gateInput, gateResult, watch,
       hashInput, hashResult, driver, shouldPersist, otherModeArtifacts, earlierRun,
                    resolverInput, resolverResult >>

NoGateInput == [registry |-> <<>>, contractData |-> <<>>]
NoGateResult == [called |-> FALSE, throws |-> FALSE, value |-> FALSE]

NoHashInput == [importsOf |-> <<>>, file |-> "", reordered |-> <<>>, root |-> ""]
NoHashResult == [called |-> FALSE, before |-> <<>>, after |-> <<>>]

\* the promise of the public method is pending
\* JSONNameResolver is not applied on its own
NoResolverInput == [dirContents |-> <<>>, lookupContractName |-> <<>>]
NoResolverResult == [called |-> FALSE, resolved |-> <<>>, all |-> <<>>]

\* no run was made under another pin
NoEarlierRun == [done |-> FALSE, pin |-> NoVersion, skipped |-> {}]

NoReturn == [done |-> FALSE, value |-> <<>>]

ArtifactNames == Files \X Files

\* an artifacts directory without files
emptyDir == [n \in ArtifactNames |-> NoArtifact]

NoPath == [version |-> NoVersion]

\* an artifact left by an earlier build of the file, still up to date
upToDateArtifact(f) ==
    [ schemaVersion |-> LATEST_ARTIFACT_VERSION, contractName |-> f,
      compilerOutput |-> [path |-> f, solcVersion |-> normalizeSolcVersion(releases[1].full),
                          unit |-> Range(resolvedContractSources(f))],
      sources |-> Range(resolvedContractSources(f)),
      sourceTreeHashHex |-> getSourceTreeHash(f), standardInput |-> NoStandardInput,
      compiler |-> [name |-> "solc", version |-> normalizeSolcVersion(releases[1].full),
                    settings |-> ConfiguredSettings] ]

\* an artifact of the file that records a compiler of no wrapper family
unsupportedArtifact(f) ==
    [upToDateArtifact(f) EXCEPT
        !.compilerOutput.solcVersion = UnsupportedVersion,
        !.compiler.version = UnsupportedVersion]

\* the artifacts directory before the first run : empty, or holding one
\* artifact, which is up to date or records a compiler of no wrapper family
InitialArtifactsDirs ==
    { emptyDir }
    \cup { [n \in ArtifactNames |-> IF n = <<f, f>> THEN upToDateArtifact(f) ELSE NoArtifact] :
              f \in Files }
    \cup { [n \in ArtifactNames |-> IF n = <<f, f>> THEN unsupportedArtifact(f) ELSE NoArtifact] :
              f \in Files }

\* the names a request may hold : the files of the project and a name that
\* does not resolve
RequestNames == Files \cup {MissingName}

ContractNameLists == UNION { [1..n -> RequestNames] : n \in 0..MaxNames }

\* every file declares a contract of its own name
allNamed == [f \in Files |-> "named"]

\* what the files declare : B.sol is the file that may be misnamed or empty
DeclaredSets == { [allNamed EXCEPT !["B"] = d] : d \in Declarations }

\* the configurations explored. Every combination of supported pins, modes,
\* pragmas of the roots and artifacts directories is explored for requests
\* of one or two names that resolve, with every file well named, a library
\* that accepts every release and the default options; an unresolvable
\* name, a misnamed or empty B.sol, a library of the 0.5 family, a request
\* of more than two names, an option that is not the default, a pin of no
\* wrapper family, a pin of the family "0.1." and an artifact that records a
\* version of no wrapper family are explored one at a time, without another
\* pin, on a directory without another artifact and with pragmas that a
\* release satisfies
explored(environment, options, pragmas, declarations, dir) ==
    LET unresolved == MissingName \in Range(options.contracts)
        unsupportedPin == options.solcVersion = UnsupportedVersion
        unsupportedDir == \E n \in ArtifactNames : dir[n].compiler.version = UnsupportedVersion
        legacyPin == options.solcVersion = LegacyVersion
        deviations == (IF unresolved THEN 1 ELSE 0)
                        + (IF declarations # allNamed THEN 1 ELSE 0)
                        + (IF pragmas["L"] # OpenPragma THEN 1 ELSE 0)
                        + (IF Len(options.contracts) > 2 THEN 1 ELSE 0)
                        + (IF options.shouldSaveStandardInput THEN 1 ELSE 0)
                        + (IF options.isOfflineMode THEN 1 ELSE 0)
                        + (IF options.useDockerisedSolc THEN 1 ELSE 0)
                        + (IF unsupportedPin THEN 1 ELSE 0)
                        + (IF legacyPin THEN 1 ELSE 0)
                        + (IF unsupportedDir THEN 1 ELSE 0)
    IN \/ deviations = 0
       \/ /\ deviations = 1
          /\ environment.SOLCJS_PATH = NoPath
          /\ options.solcVersion = NoVersion \/ unsupportedPin \/ legacyPin
          /\ dir = emptyDir \/ unsupportedDir
          /\ \A f \in Files : pragmas[f].ver # <<9, 9, 9>>

\* the values of process.env
Envs == [SOLCJS_PATH : {NoPath, [version |-> EnvPinVersion]}]

\* requests of at most two names that resolve, requests of at most two names
\* of which one does not resolve, and longer requests of names that resolve
ShortLists == UNION { [1..n -> Files] : n \in 0..2 }
UnresolvedLists ==
    { c \in UNION { [1..n -> RequestNames] : n \in 0..2 } : MissingName \in Range(c) }
LongLists == UNION { [1..n -> Files] : n \in 3..MaxNames }

\* requests of files that import nothing : each is a unit of a single source
SingleSourceLists ==
    { c \in ShortLists : c # <<>> /\ \A k \in 1..Len(c) : imports[c[k]] = <<>> }

\* the pragmas a release satisfies, for one pragma of the library
satisfiedPragmas(ofLibrary) ==
    { p \in Pragmas : p["L"] = ofLibrary /\ \A f \in Files : p[f].ver # <<9, 9, 9>> }

\* a directory that holds one artifact of a compiler of no wrapper family
UnsupportedDirs ==
    { dir \in InitialArtifactsDirs :
        \E n \in ArtifactNames : dir[n].compiler.version = UnsupportedVersion }

\* the environment, the options, the sources and the artifacts directory a
\* driver is constructed on
configuration(environment, contracts, solcVersion, independently, flags, pragmas, declarations, dir) ==
    [ env |-> environment,
      opts |-> [ contracts |-> contracts, solcVersion |-> solcVersion,
                 shouldCompileIndependently |-> independently,
                 shouldSaveStandardInput |-> flags = "save",
                 isOfflineMode |-> flags = "offline",
                 useDockerisedSolc |-> flags = "docker" ],
      sources |-> pragmas, declared |-> declarations, artifactsDir |-> dir ]

\* the configurations explored, listed : the set of those explored(...) admits
Configurations ==
    { configuration(e, c, v, i, "", p, allNamed, d) :
        e \in Envs, c \in ShortLists, v \in {NoVersion, OptPinVersion}, i \in BOOLEAN,
        p \in { q \in Pragmas : q["L"] = OpenPragma },
        d \in InitialArtifactsDirs \ UnsupportedDirs }
    \cup { configuration([SOLCJS_PATH |-> NoPath], c, NoVersion, i, "", p, allNamed, emptyDir) :
        c \in UnresolvedLists \cup LongLists, i \in BOOLEAN, p \in satisfiedPragmas(OpenPragma) }
    \cup { configuration([SOLCJS_PATH |-> NoPath], c, NoVersion, i, "", p, d, emptyDir) :
        c \in ShortLists, i \in BOOLEAN, p \in satisfiedPragmas(OpenPragma),
        d \in DeclaredSets \ {allNamed} }
    \cup { configuration([SOLCJS_PATH |-> NoPath], c, NoVersion, i, "", p, allNamed, emptyDir) :
        c \in ShortLists, i \in BOOLEAN,
        p \in satisfiedPragmas([op |-> "^", ver |-> <<0, 5, 0>>]) }
    \cup { configuration([SOLCJS_PATH |-> NoPath], c, NoVersion, i, f, p, allNamed, emptyDir) :
        c \in ShortLists, i \in BOOLEAN, f \in {"save", "offline", "docker"},
        p \in satisfiedPragmas(OpenPragma) }
    \cup { configuration([SOLCJS_PATH |-> NoPath], c, UnsupportedVersion, i, "", p, allNamed,
                         emptyDir) :
        c \in ShortLists, i \in BOOLEAN, p \in satisfiedPragmas(OpenPragma) }
    \cup { configuration([SOLCJS_PATH |-> NoPath], c, NoVersion, i, "", p, allNamed, d) :
        c \in ShortLists, i \in BOOLEAN, p \in satisfiedPragmas(OpenPragma),
        d \in UnsupportedDirs }
    \cup { configuration([SOLCJS_PATH |-> NoPath], c, LegacyVersion, i, "", p, allNamed,
                         emptyDir) :
        c \in SingleSourceLists, i \in BOOLEAN, p \in satisfiedPragmas(OpenPragma) }

emptyMap == [x \in {} |-> x]

\* the solcVersion option before the SOLCJS_PATH pin
constructorOptionBeforeEnv(environment, options) ==
    IF options.solcVersion # NoVersion
    THEN options.solcVersion
    ELSE getSolcJSVersionFromPath(environment.SOLCJS_PATH)

\* Compiler.constructor : _solcVersionIfExists, the SOLCJS_PATH pin before
\* the solcVersion option
constructorSolcVersionIfExists(environment, options) ==
    IF environment.SOLCJS_PATH # NoPath
    THEN getSolcJSVersionFromPath(environment.SOLCJS_PATH)
    ELSE options.solcVersion

\* Compiler.constructor, and the first lines of _compileContractsAsync
Constructor ==
    /\ \E c \in Configurations :
          /\ env = c.env
          /\ opts = c.opts
          /\ sources = c.sources
          /\ declared = c.declared
          /\ artifactsDir = c.artifactsDir
    /\ explored(env, opts, sources, declared, artifactsDir)
    /\ solcVersionIfExists = constructorSolcVersionIfExists(env, opts)
    /\ gateInput = NoGateInput
    /\ gateResult = NoGateResult
    /\ solcWrappersByVersion = <<>>
    /\ watchState = "off"
    /\ watchedPaths = {}
    /\ buildsInFlight = 0
    /\ missedChange = FALSE
    /\ unwatchStopsWatching = TRUE
    /\ pendingBuilds = <<>>
    /\ run = 1
    /\ pc = "plan"
    /\ error = ""
    /\ nameIdx = 1
    /\ compilationUnitsByVersion = <<>>
    /\ contractPathToData = emptyMap
    /\ planned = <<>>
    /\ compilationResults = emptyMap
    /\ artifactCache = emptyMap
    /\ pos = <<1, 1, 1, 0>>
    /\ written = <<>>
    /\ hashInput = NoHashInput
    /\ hashResult = NoHashResult
    /\ driver = "Compiler"
    /\ otherModeArtifacts = emptyDir
    /\ preFetched = <<>>
    /\ returned = NoReturn
    /\ earlierRun = NoEarlierRun
    /\ resolverInput = NoResolverInput
    /\ resolverResult = NoResolverResult

\* Compiler.compileAsync is called : shouldPersist is true
Init ==
    /\ Constructor
    /\ shouldPersist = TRUE

\* Compiler.getCompilerOutputsAsync is called : shouldPersist is false
OutputsInit ==
    /\ Constructor
    /\ shouldPersist = FALSE

\* the options the public method gives _compileContractsAsync : compileAsync
\* those of the instance, getCompilerOutputsAsync neither persists nor
\* compiles independently
compileContractsOpts ==
    [ shouldPersist |-> shouldPersist,
      shouldCompileIndependently |-> shouldPersist /\ opts.shouldCompileIndependently ]

(***************************************************************************)
(* Cache gate and wrapper registry                                         *)
(***************************************************************************)
\* the registry keyed by the version as given
getSolcWrapperForVersionAsGiven(registry, solcVersion) ==
    IF solcVersion \in Range(registry) THEN registry ELSE Append(registry, solcVersion)

\* a new wrapper for every request, whatever the registry holds
getSolcWrapperForVersionAlwaysCreates(registry, solcVersion) ==
    Append(registry, normalizeSolcVersion(solcVersion))

\* _getSolcWrapperForVersion : the registry after the call. The registry is
\* the sequence of its keys in insertion order, so the i-th key stands for the
\* i-th wrapper _createSolcInstance returned
getSolcWrapperForVersion(registry, solcVersion) ==
    IF normalizeSolcVersion(solcVersion) \in Range(registry)
    THEN registry
    ELSE Append(registry, normalizeSolcVersion(solcVersion))

\* a wrapper of some family is made for every version
createSolcInstanceNeverThrows(registry, solcVersion) == FALSE

\* _createSolcInstance throws for a version of no wrapper family
createSolcInstanceThrows(registry, solcVersion) ==
    /\ normalizeSolcVersion(solcVersion) \notin Range(registry)
    /\ ~hasSolcWrapper(normalizeSolcVersion(solcVersion))

\* the gate without the comparison of the compiler settings
shouldCompileIgnoringSettings(registry, contractData) ==
    IF contractData.currentArtifactIfExists = NoArtifact
    THEN [throws |-> FALSE, value |-> TRUE]
    ELSE LET currentArtifact == contractData.currentArtifactIfExists IN
         IF createSolcInstanceThrows(registry, currentArtifact.compiler.version)
         THEN [throws |-> TRUE, value |-> FALSE]
         ELSE [throws |-> FALSE,
               value |-> \/ currentArtifact.schemaVersion # LATEST_ARTIFACT_VERSION
                         \/ currentArtifact.sourceTreeHashHex # contractData.sourceTreeHashHex]

\* a gate that also rebuilds when the instance has no wrapper yet for the
\* version the artifact records
shouldCompileUnlessWrapperKnown(registry, contractData) ==
    IF contractData.currentArtifactIfExists = NoArtifact
    THEN [throws |-> FALSE, value |-> TRUE]
    ELSE LET currentArtifact == contractData.currentArtifactIfExists IN
         IF normalizeSolcVersion(currentArtifact.compiler.version) \notin Range(registry)
               /\ ~hasSolcWrapper(normalizeSolcVersion(currentArtifact.compiler.version))
         THEN [throws |-> TRUE, value |-> FALSE]
         ELSE [throws |-> FALSE,
               value |-> \/ currentArtifact.schemaVersion # LATEST_ARTIFACT_VERSION
                         \/ areCompilerSettingsDifferent(currentArtifact.compiler.settings)
                         \/ currentArtifact.sourceTreeHashHex # contractData.sourceTreeHashHex
                         \/ normalizeSolcVersion(currentArtifact.compiler.version)
                                \notin Range(registry)]

\* a gate that looks up no wrapper : it compares and never throws
shouldCompileWithoutWrapper(registry, contractData) ==
    IF contractData.currentArtifactIfExists = NoArtifact
    THEN [throws |-> FALSE, value |-> TRUE]
    ELSE LET currentArtifact == contractData.currentArtifactIfExists IN
         [throws |-> FALSE,
          value |-> \/ currentArtifact.schemaVersion # LATEST_ARTIFACT_VERSION
                    \/ areCompilerSettingsDifferent(currentArtifact.compiler.settings)
                    \/ currentArtifact.sourceTreeHashHex # contractData.sourceTreeHashHex]

\* _shouldCompile : throws when no wrapper exists for the version the
\* artifact records, else value is its boolean result
shouldCompile(registry, contractData) ==
    IF contractData.currentArtifactIfExists = NoArtifact
    THEN [throws |-> FALSE, value |-> TRUE]
    ELSE LET currentArtifact == contractData.currentArtifactIfExists IN
         IF createSolcInstanceThrows(registry, currentArtifact.compiler.version)
         THEN [throws |-> TRUE, value |-> FALSE]
         ELSE LET isUserOnLatestVersion ==
                      currentArtifact.schemaVersion = LATEST_ARTIFACT_VERSION
                  didCompilerSettingsChange ==
                      areCompilerSettingsDifferent(currentArtifact.compiler.settings)
                  didSourceChange ==
                      currentArtifact.sourceTreeHashHex # contractData.sourceTreeHashHex
              IN [throws |-> FALSE,
                  value |-> ~isUserOnLatestVersion \/ didCompilerSettingsChange
                               \/ didSourceChange]

(***************************************************************************)
(* Planner : the loop over contractNames of _compileContractsAsync         *)
(***************************************************************************)
\* the first release of the list that satisfies the range, not the greatest
RECURSIVE firstSatisfyingFrom(_, _, _)
firstSatisfyingFrom(versions, range, i) ==
    IF i > Len(versions) THEN NoShortVersion
    ELSE IF satisfies(versions[i], range) THEN versions[i]
         ELSE firstSatisfyingFrom(versions, range, i + 1)

selectSolcVersionFirstSatisfying(pin, contractSource) ==
    IF pin # NoVersion
    THEN pin
    ELSE LET solidityVersion ==
                 firstSatisfyingFrom(releaseKeys, parseSolidityVersionRange(contractSource.source), 1)
         IN IF solidityVersion # NoShortVersion
            THEN normalizeSolcVersion(releaseOf(solidityVersion))
            ELSE NoVersion

\* the latest release when no release satisfies the range, not undefined
selectSolcVersionOrLatest(pin, contractSource) ==
    IF pin # NoVersion
    THEN pin
    ELSE LET solidityVersion ==
                 maxSatisfying(releaseKeys, parseSolidityVersionRange(contractSource.source))
         IN IF solidityVersion # NoShortVersion
            THEN normalizeSolcVersion(releaseOf(solidityVersion))
            ELSE normalizeSolcVersion(releases[1].full)

\* the version for a root : the pin when there is one, else the normalized
\* release of the greatest short version that satisfies the root's pragma;
\* NoVersion when no release satisfies it
selectSolcVersion(pin, contractSource) ==
    IF pin # NoVersion
    THEN pin
    ELSE LET solidityVersion ==
                 maxSatisfying(releaseKeys, parseSolidityVersionRange(contractSource.source))
         IN IF solidityVersion # NoShortVersion
            THEN normalizeSolcVersion(releaseOf(solidityVersion))
            ELSE NoVersion

\* index of a key of the plan, 0 when the plan has no such key
keyIndex(plan, solcVersion) ==
    IF \E i \in 1..Len(plan) : plan[i].solcVersion = solcVersion
    THEN CHOOSE i \in 1..Len(plan) : plan[i].solcVersion = solcVersion
    ELSE 0

\* only the first resolved source, the root, is put into the unit
addSourcesRootOnly(unit, resolved) ==
    IF resolved = <<>> \/ Head(resolved) \in Range(unit) THEN unit
    ELSE Append(unit, Head(resolved))

\* unit[absolutePath] = source for each resolved source, in order : a new
\* key goes to the end, a key the unit has keeps its place
RECURSIVE addSources(_, _)
addSources(unit, resolved) ==
    IF resolved = <<>> THEN unit
    ELSE addSources(IF Head(resolved) \in Range(unit) THEN unit ELSE Append(unit, Head(resolved)),
                    Tail(resolved))

\* a new unit for every root, whatever the mode
placeInUnitsAlwaysNew(units, independently, resolved) ==
    Append(units, addSources(<<>>, resolved))

\* the first unit for every root, whatever the mode
placeInUnitsAlwaysFirst(units, independently, resolved) ==
    IF Len(units) = 0
    THEN <<addSources(<<>>, resolved)>>
    ELSE [units EXCEPT ![1] = addSources(units[1], resolved)]

\* the units of a version after a root is placed : a new unit for the root
\* when compiling independently, the first unit otherwise
placeInUnits(units, independently, resolved) ==
    IF independently
    THEN Append(units, addSources(<<>>, resolved))
    ELSE IF Len(units) = 0
         THEN <<addSources(<<>>, resolved)>>
         ELSE [units EXCEPT ![1] = addSources(units[1], resolved)]

\* compilationUnitsByVersion after a root is placed under its version
placeInPlan(plan, solcVersion, independently, resolved) ==
    LET i == keyIndex(plan, solcVersion) IN
    IF i = 0
    THEN Append(plan, [solcVersion |-> solcVersion,
                       units |-> placeInUnits(<<>>, independently, resolved)])
    ELSE [plan EXCEPT ![i].units = placeInUnits(plan[i].units, independently, resolved)]

\* the for loop has gone through every requested name
planningComplete == nameIdx > Len(opts.contracts)

\* one iteration of the planning loop
PlanContract ==
    /\ pc = "plan"
    /\ ~planningComplete
    /\ LET contractName == opts.contracts[nameIdx]
           contractSource == resolve(sources, contractName)
           contractData ==
               [ contractName |-> basename(contractName),
                 currentArtifactIfExists |->
                     getContractArtifactIfExistsAsync(artifactsDir, contractName),
                 sourceTreeHashHex |-> getSourceTreeHash(contractSource.path) ]
           gate == shouldCompile(solcWrappersByVersion, contractData)
           solcVersion == selectSolcVersion(solcVersionIfExists, contractSource)
       IN
       IF resolveThrows(contractName)
       THEN /\ pc' = "failed"
            /\ error' = "NameResolutionError"
            /\ UNCHANGED << solcWrappersByVersion, nameIdx, compilationUnitsByVersion,
                            contractPathToData, planned >>
       ELSE IF gate.throws
       THEN /\ pc' = "failed"
            /\ error' = "UnsupportedVersionError"
            /\ UNCHANGED << solcWrappersByVersion, nameIdx, compilationUnitsByVersion,
                            contractPathToData, planned >>
       ELSE /\ solcWrappersByVersion' =
                   IF contractData.currentArtifactIfExists = NoArtifact
                   THEN solcWrappersByVersion
                   ELSE getSolcWrapperForVersion(solcWrappersByVersion,
                            contractData.currentArtifactIfExists.compiler.version)
            /\ IF ~gate.value
               THEN \* continue
                    /\ nameIdx' = nameIdx + 1
                    /\ UNCHANGED << pc, error, compilationUnitsByVersion,
                                    contractPathToData, planned >>
               ELSE /\ contractPathToData' =
                           [q \in DOMAIN contractPathToData \cup {contractSource.absolutePath} |->
                               IF q = contractSource.absolutePath THEN contractData
                               ELSE contractPathToData[q]]
                    /\ IF solcVersion = NoVersion
                       THEN /\ pc' = "failed"
                            /\ error' = "UnsatisfiableVersionError"
                            /\ UNCHANGED << nameIdx, compilationUnitsByVersion, planned >>
                       ELSE /\ compilationUnitsByVersion' =
                                   placeInPlan(compilationUnitsByVersion, solcVersion,
                                               compileContractsOpts.shouldCompileIndependently,
                                               resolvedContractSources(contractSource.path))
                            /\ planned' = Append(planned,
                                   [name |-> contractName, solcVersion |-> solcVersion])
                            /\ nameIdx' = nameIdx + 1
                            /\ UNCHANGED << pc, error >>
    /\ UNCHANGED << config, artifactsDir, run, compilationResults, artifactCache, pos, written,
                    preFetched, returned >>

(***************************************************************************)
(* Dispatcher : Promise.all over versions and units                        *)
(***************************************************************************)
\* the <<i, j>> of every unit of the plan
unitIndices(plan) ==
    UNION { { <<i, j>> : j \in 1..Len(plan[i].units) } : i \in 1..Len(plan) }

\* the normalized versions of the plan, for the wrapper registry
RECURSIVE wrappersFor(_, _, _)
wrappersFor(registry, plan, i) ==
    IF i > Len(plan) THEN registry
    ELSE wrappersFor(IF createSolcInstanceThrows(registry, plan[i].solcVersion)
                     THEN registry
                     ELSE getSolcWrapperForVersion(registry, plan[i].solcVersion),
                     plan, i + 1)

\* the files of every unit of the plan : resolvedContractSources, to which
\* the planner pushes what it puts into a unit
allResolvedContractSources(plan) ==
    UNION { Range(plan[ij[1]].units[ij[2]]) : ij \in unitIndices(plan) }

\* units.map(...) inside versions.map(...) : the units compileAsync is called on
dispatchedUnits(plan) == unitIndices(plan)

\* compiler.compileAsync(contracts, importRemappings) on the wrapper of a
\* version : the promise and the arguments of the call
compileAsyncCall(solcVersion, contracts, importRemappings) ==
    [ state |-> "pending", solcVersion |-> solcVersion, contracts |-> contracts,
      importRemappings |-> importRemappings ]

\* what a fulfilled invocation resolves to : {input, output}
compilationResultOf(declarations, call) ==
    solcCompile(declarations, call.solcVersion, call.contracts, call.importRemappings)

\* Object.keys(compilationUnitsByVersion)
versionsOf(plan) == [i \in 1..Len(plan) |-> plan[i].solcVersion]

\* the binaries are fetched whatever the options and the plan are
preFetchUnguarded(options, versions) == << versions >>

\* the calls of preFetchCSolcJSBinariesAsync, each the versions it is given :
\* one call, or none under Docker, offline, or when the plan has no version
preFetchCSolcJSBinariesAsync(options, versions) ==
    IF ~options.useDockerisedSolc /\ ~options.isOfflineMode /\ Len(versions) > 0
    THEN << versions >>
    ELSE <<>>

\* the guard of the pre-fetch holds for the plan
preFetchIsDue ==
    preFetchCSolcJSBinariesAsync(opts, versionsOf(compilationUnitsByVersion)) # <<>>

\* the planning loop is over : preFetchCSolcJSBinariesAsync is called with the
\* versions of the plan, and awaited
PreFetch ==
    /\ pc = "plan"
    /\ planningComplete
    /\ preFetchIsDue
    /\ preFetched' = preFetchCSolcJSBinariesAsync(opts, versionsOf(compilationUnitsByVersion))
    /\ pc' = "prefetch"
    /\ UNCHANGED << config, solcWrappersByVersion, artifactsDir, run, error, nameIdx,
                    compilationUnitsByVersion, contractPathToData, planned,
                    compilationResults, artifactCache, pos, written, returned >>

\* the dispatcher runs next : the await of the pre-fetch returns, or the
\* planning loop is over and nothing is pre-fetched
dispatchIsDue ==
    \/ pc = "prefetch"
    \/ pc = "plan" /\ planningComplete /\ ~preFetchIsDue

\* versions.map(...) : every version with a wrapper starts compileAsync on
\* each of its units; a version without one rejects the joint promise
Dispatch ==
    /\ dispatchIsDue
    /\ LET plan == compilationUnitsByVersion
           importRemappings == getDependencyNameToPackagePath(allResolvedContractSources(plan))
           unsupported == { i \in 1..Len(plan) :
                               createSolcInstanceThrows(solcWrappersByVersion, plan[i].solcVersion) }
       IN /\ compilationResults' =
                 [ij \in { x \in dispatchedUnits(plan) : x[1] \notin unsupported } |->
                     compileAsyncCall(plan[ij[1]].solcVersion, plan[ij[1]].units[ij[2]],
                                      importRemappings)]
          /\ solcWrappersByVersion' = wrappersFor(solcWrappersByVersion, plan, 1)
          /\ IF unsupported = {}
             THEN pc' = "dispatch" /\ UNCHANGED error
             ELSE pc' = "failed" /\ error' = "UnsupportedVersionError"
    /\ UNCHANGED << config, artifactsDir, run, nameIdx, compilationUnitsByVersion,
                    contractPathToData, planned, artifactCache, pos, written, preFetched,
                    returned >>

\* Promise.allSettled : the joint promise never rejects
promiseAllSettled(results) ==
    IF \E ij \in DOMAIN results : results[ij].state = "pending" THEN "pending"
    ELSE "fulfilled"

\* Promise.all over the invocations : rejected as soon as one is rejected,
\* fulfilled when every one is fulfilled
promiseAll(results) ==
    IF \E ij \in DOMAIN results : results[ij].state = "rejected" THEN "rejected"
    ELSE IF \E ij \in DOMAIN results : results[ij].state = "pending" THEN "pending"
    ELSE "fulfilled"

\* a back-end invocation succeeds, while the joint promise is awaited or
\* after it was rejected (an invocation in flight is left to complete)
CompileFulfilled ==
    /\ pc \in {"dispatch", "failed"}
    /\ \E ij \in DOMAIN compilationResults :
          /\ compilationResults[ij].state = "pending"
          /\ compilationResults' = [compilationResults EXCEPT ![ij].state = "fulfilled"]
    /\ UNCHANGED << config, solcWrappersByVersion, artifactsDir, run, pc, error, nameIdx,
                    compilationUnitsByVersion, contractPathToData, planned, artifactCache,
                    pos, written, preFetched, returned >>

\* a back-end invocation throws CompilationError : the joint promise rejects
\* with the first rejection, a later one has no effect
CompileRejected ==
    /\ pc \in {"dispatch", "failed"}
    /\ \E ij \in DOMAIN compilationResults :
          /\ compilationResults[ij].state = "pending"
          /\ compilationResults' = [compilationResults EXCEPT ![ij].state = "rejected"]
    /\ IF pc = "dispatch" /\ promiseAll(compilationResults') = "rejected"
       THEN pc' = "failed" /\ error' = "CompilationError"
       ELSE UNCHANGED << pc, error >>
    /\ UNCHANGED << config, solcWrappersByVersion, artifactsDir, run, nameIdx,
                    compilationUnitsByVersion, contractPathToData, planned, artifactCache,
                    pos, written, preFetched, returned >>

\* the joint promise is not awaited
dispatchNotAwaited == TRUE

\* await Promise.all(...) : every invocation has been fulfilled
dispatchComplete ==
    \A ij \in DOMAIN compilationResults : compilationResults[ij].state = "fulfilled"

\* the await returns and, shouldPersist being true, the writer starts
StartPersist ==
    /\ pc = "dispatch"
    /\ dispatchComplete
    /\ compileContractsOpts.shouldPersist
    /\ pc' = "write"
    /\ artifactCache' = emptyMap
    /\ pos' = <<1, 1, 1, 0>>
    /\ UNCHANGED << config, solcWrappersByVersion, artifactsDir, run, error, nameIdx,
                    compilationUnitsByVersion, contractPathToData, planned,
                    compilationResults, written, preFetched, returned >>

(***************************************************************************)
(* Artifact writer                                                         *)
(***************************************************************************)
\* (output.contracts[contractPath] || output.contracts[''])[contractName] :
\* throws a TypeError when the output has neither key, else the compiled
\* contract, NoOutput when the name is not among those of the file
compiledContractIn(compilerOutput, contractPath, contractName) ==
    LET byName == IF contractPath \in DOMAIN compilerOutput.contracts
                  THEN compilerOutput.contracts[contractPath]
                  ELSE compilerOutput.contracts[""]
    IN IF contractPath \notin DOMAIN compilerOutput.contracts
          /\ "" \notin DOMAIN compilerOutput.contracts
       THEN [throws |-> TRUE, value |-> NoOutput]
       ELSE [throws |-> FALSE,
             value |-> IF contractName \in DOMAIN byName THEN byName[contractName]
                       ELSE NoOutput]

\* the artifact _persistCompiledContractAsync builds for one source of the
\* compiler output (it sets no sourceTreeHashHex and never adds the input)
newArtifact(contractPath, solcVersion, compilerInput, compilerOutput) ==
    [ schemaVersion |-> LATEST_ARTIFACT_VERSION,
      contractName |-> basename(contractPath),
      compilerOutput |->
          compiledContractIn(compilerOutput, contractPath, basename(contractPath)).value,
      sources |-> compilerOutput.sources,
      sourceTreeHashHex |-> NoHash,
      standardInput |-> NoStandardInput,
      compiler |-> [name |-> "solc", version |-> solcVersion,
                    settings |-> compilerInput.settings] ]

\* compilerOutput.sources[''] === undefined
hasNoUnnamedSource(compilerOutput) == "" \notin Range(compilerOutput.sourceKeys)

\* the artifact of the else branch of _persistCompiledContractAsync, for an
\* output of "Solidity version 1" : the contract is named as the file, and
\* its record is contracts[''][contractFileName], undefined when the output
\* has none of that name
singleSourceArtifact(contractFileName, solcVersion, compilerInput, compilerOutput) ==
    [ schemaVersion |-> LATEST_ARTIFACT_VERSION,
      contractName |-> contractFileName,
      compilerOutput |->
          IF "" \in DOMAIN compilerOutput.contracts
          THEN IF contractFileName \in DOMAIN compilerOutput.contracts[""]
               THEN compilerOutput.contracts[""][contractFileName]
               ELSE NoOutput
          ELSE NoOutput,
      sources |-> compilerOutput.sources,
      sourceTreeHashHex |-> NoHash,
      standardInput |-> NoStandardInput,
      compiler |-> [name |-> "solc", version |-> solcVersion,
                    settings |-> compilerInput.settings] ]

\* the calls of fsWrapper.writeFileAsync one call of
\* _persistCompiledContractAsync makes : one for every source of the output,
\* or a single one when the output has a source ''
persistWrites(compilerOutput) ==
    IF hasNoUnnamedSource(compilerOutput) THEN Len(compilerOutput.sourceKeys) ELSE 1

\* the k-th file of a call of _persistCompiledContractAsync : its name, its
\* artifact, and whether the lookup of the compiled contract throws
persistedFile(contractFileName, solcVersion, compilerInput, compilerOutput, k) ==
    IF hasNoUnnamedSource(compilerOutput)
    THEN LET contractPath == compilerOutput.sourceKeys[k]
             contractName == basename(contractPath)
         IN [ throws |-> compiledContractIn(compilerOutput, contractPath, contractName).throws,
              name |-> <<contractFileName, contractName>>,
              artifact |->
                  newArtifact(contractPath, solcVersion, compilerInput, compilerOutput) ]
    ELSE [ throws |-> "" \notin DOMAIN compilerOutput.contracts,
           name |-> <<contractFileName, contractFileName>>,
           artifact |->
               singleSourceArtifact(contractFileName, solcVersion, compilerInput,
                                    compilerOutput) ]

\* _persistCompiledContractAsync from its k-th file on : the directory, the
\* files written so far, and whether the lookup of a compiled contract threw
RECURSIVE persistFrom(_, _, _, _, _, _, _)
persistFrom(dir, names, contractFileName, solcVersion, compilerInput, compilerOutput, k) ==
    IF k > persistWrites(compilerOutput)
    THEN [dir |-> dir, written |-> names, throws |-> FALSE]
    ELSE LET file == persistedFile(contractFileName, solcVersion, compilerInput,
                                   compilerOutput, k)
         IN IF file.throws
            THEN [dir |-> dir, written |-> names, throws |-> TRUE]
            ELSE persistFrom(
                     [dir EXCEPT ![file.name] = file.artifact],
                     Append(names, file.name),
                     contractFileName, solcVersion, compilerInput, compilerOutput, k + 1)

\* _persistCompiledContractAsync, from the call to the return : one file
\* <contractFileName>-<contractName>.json for every source of the compiler
\* output, or the one file <contractFileName>-<contractFileName>.json
persistCompiledContractAsync(dir, contractFileName, solcVersion, compilerInput, compilerOutput) ==
    persistFrom(dir, <<>>, contractFileName, solcVersion, compilerInput, compilerOutput, 1)

\* every unit is paired with the result of the first invocation
compilationResultFirst(results, i, j) == results[<<1, 1>>]

\* compilationResults[i][j]
compilationResultAt(results, i, j) == results[<<i, j>>]

\* never write the artifact of a path twice
alreadyWritten(cache, contractPath, unitSize) ==
    contractPath \in DOMAIN cache

\* write again unless the earlier unit was strictly smaller
alreadyWrittenStrictlySimpler(cache, contractPath, unitSize) ==
    /\ contractPath \in DOMAIN cache
    /\ cache[contractPath] < unitSize

\* "we haven't already written a simpler version of it" : the artifact of
\* the path was written from a unit that is not larger
alreadyWrittenSimpler(cache, contractPath, unitSize) ==
    /\ contractPath \in DOMAIN cache
    /\ cache[contractPath] <= unitSize

\* the loop indices after this iteration
nextPos(plan, p) ==
    IF p[3] < Len(plan[p[1]].units[p[2]]) THEN <<p[1], p[2], p[3] + 1, 0>>
    ELSE IF p[2] < Len(plan[p[1]].units) THEN <<p[1], p[2] + 1, 1, 0>>
    ELSE <<p[1] + 1, 1, 1, 0>>

\* one iteration of the innermost loop of the writer, up to the first await
\* of _persistCompiledContractAsync : the first file is handed to
\* fsWrapper.writeFileAsync
PersistContract ==
    /\ pc = "write"
    /\ pos[1] <= Len(compilationUnitsByVersion)
    /\ pos[4] = 0
    /\ LET solcVersion == compilationUnitsByVersion[pos[1]].solcVersion
           contracts == compilationUnitsByVersion[pos[1]].units[pos[2]]
           compilationResult ==
               compilationResultOf(declared,
                   compilationResultAt(compilationResults, pos[1], pos[2]))
           unitSize == Len(contracts)
           contractPath == contracts[pos[3]]
           contractData == contractPathToData[contractPath]
           compiledContract ==
               compiledContractIn(compilationResult.output, contractPath,
                                  contractData.contractName)
           first ==
               persistedFile(contractData.contractName, solcVersion,
                   compilationResult.input, compilationResult.output, 1)
       IN
       IF contractPath \notin DOMAIN contractPathToData
       THEN /\ pos' = nextPos(compilationUnitsByVersion, pos)
            /\ UNCHANGED << artifactCache, pc, error >>
       ELSE IF compiledContract.throws
       THEN /\ pc' = "failed"
            /\ error' = "TypeError"
            /\ UNCHANGED << artifactCache, pos >>
       ELSE IF compiledContract.value = NoOutput
       THEN /\ pc' = "failed"
            /\ error' = "MissingContractError"
            /\ UNCHANGED << artifactCache, pos >>
       ELSE IF alreadyWrittenSimpler(artifactCache, contractPath, unitSize)
       THEN /\ pos' = nextPos(compilationUnitsByVersion, pos)
            /\ UNCHANGED << artifactCache, pc, error >>
       ELSE /\ artifactCache' =
                   [q \in DOMAIN artifactCache \cup {contractPath} |->
                       IF q = contractPath THEN unitSize ELSE artifactCache[q]]
            /\ IF persistWrites(compilationResult.output) = 0
               THEN pos' = nextPos(compilationUnitsByVersion, pos) /\ UNCHANGED << pc, error >>
               ELSE IF first.throws
               THEN pc' = "failed" /\ error' = "TypeError" /\ UNCHANGED pos
               ELSE pos' = [pos EXCEPT ![4] = 1] /\ UNCHANGED << pc, error >>
    /\ UNCHANGED << config, solcWrappersByVersion, artifactsDir, run, nameIdx,
                    compilationUnitsByVersion, contractPathToData, planned,
                    compilationResults, written, preFetched, returned >>

\* fsWrapper.writeFileAsync has written the file it was handed, and
\* _persistCompiledContractAsync goes on : to the next file, which is handed
\* to fsWrapper.writeFileAsync, or, after its last file, back to the writer
WriteArtifact ==
    /\ pc = "write"
    /\ pos[1] <= Len(compilationUnitsByVersion)
    /\ pos[4] > 0
    /\ LET solcVersion == compilationUnitsByVersion[pos[1]].solcVersion
           contracts == compilationUnitsByVersion[pos[1]].units[pos[2]]
           compilationResult ==
               compilationResultOf(declared,
                   compilationResultAt(compilationResults, pos[1], pos[2]))
           contractFileName == contractPathToData[contracts[pos[3]]].contractName
           file ==
               persistedFile(contractFileName, solcVersion, compilationResult.input,
                   compilationResult.output, pos[4])
           next ==
               persistedFile(contractFileName, solcVersion, compilationResult.input,
                   compilationResult.output, pos[4] + 1)
       IN /\ artifactsDir' = [artifactsDir EXCEPT ![file.name] = file.artifact]
          /\ written' = Append(written, file.name)
          /\ IF pos[4] = persistWrites(compilationResult.output)
             THEN pos' = nextPos(compilationUnitsByVersion, pos) /\ UNCHANGED << pc, error >>
             ELSE IF next.throws
             THEN pc' = "failed" /\ error' = "TypeError" /\ UNCHANGED pos
             ELSE pos' = [pos EXCEPT ![4] = pos[4] + 1] /\ UNCHANGED << pc, error >>
    /\ UNCHANGED << config, solcWrappersByVersion, run, nameIdx,
                    compilationUnitsByVersion, contractPathToData, planned,
                    compilationResults, artifactCache, preFetched, returned >>

\* compilationResults.map(r => r.map(ur => ur.output))
promisedOutputs ==
    [ i \in 1..Len(compilationUnitsByVersion) |->
        [ j \in 1..Len(compilationUnitsByVersion[i].units) |->
            compilationResultOf(declared,
                compilationResultAt(compilationResults, i, j)).output ] ]

\* promisedOutputs.map(o => o[0])
firstOfEach(outputs) ==
    [i \in 1..Len(outputs) |-> outputs[i][1]]

\* what the public method resolves to : nothing for compileAsync, the first
\* output of every version for getCompilerOutputsAsync
returnValue == IF shouldPersist THEN <<>> ELSE firstOfEach(promisedOutputs)

\* the loops of the writer are over, or the await of the dispatcher returns
\* and shouldPersist is false : _compileContractsAsync returns
Return ==
    /\ \/ pc = "write" /\ pos[1] > Len(compilationUnitsByVersion)
       \/ pc = "dispatch" /\ dispatchComplete /\ ~compileContractsOpts.shouldPersist
    /\ pc' = "done"
    /\ returned' = [done |-> TRUE, value |-> returnValue]
    /\ UNCHANGED << config, solcWrappersByVersion, artifactsDir, run, error, nameIdx,
                    compilationUnitsByVersion, contractPathToData, planned,
                    compilationResults, artifactCache, pos, written, preFetched >>

\* the public method is called again on the same Compiler, nothing else
\* changed
CompileAgain ==
    /\ pc = "done"
    /\ watchState = "off"
    /\ run < MaxRuns
    /\ run' = run + 1
    /\ pc' = "plan"
    /\ nameIdx' = 1
    /\ compilationUnitsByVersion' = <<>>
    /\ contractPathToData' = emptyMap
    /\ planned' = <<>>
    /\ compilationResults' = emptyMap
    /\ artifactCache' = emptyMap
    /\ pos' = <<1, 1, 1, 0>>
    /\ written' = <<>>
    /\ preFetched' = <<>>
    /\ returned' = NoReturn
    /\ UNCHANGED << config, solcWrappersByVersion, artifactsDir, error >>

Next ==
    \/ PlanContract
    \/ PreFetch
    \/ Dispatch
    \/ CompileFulfilled
    \/ CompileRejected
    \/ StartPersist
    \/ PersistContract
    \/ WriteArtifact
    \/ Return
    \/ CompileAgain

\* either public method of Compiler
Spec == (Init \/ OutputsInit) /\ [][Next]_vars

(***************************************************************************)
(* The two modes : the project is compiled once more from the start, by a   *)
(* Compiler constructed with the other value of shouldCompileIndependently *)
(***************************************************************************)
\* Compiler.constructor on an empty artifacts directory
ModesInit ==
    /\ Init
    /\ artifactsDir = emptyDir

\* the artifacts are set aside, and compileAsync is called on a new Compiler
\* that differs in shouldCompileIndependently only
CompileInOtherMode ==
    /\ pc = "done"
    /\ watchState = "off"
    /\ run < MaxRuns
    /\ otherModeArtifacts' = artifactsDir
    /\ artifactsDir' = emptyDir
    /\ opts' = [opts EXCEPT !.shouldCompileIndependently = ~opts.shouldCompileIndependently]
    /\ solcWrappersByVersion' = <<>>
    /\ run' = run + 1
    /\ pc' = "plan"
    /\ nameIdx' = 1
    /\ compilationUnitsByVersion' = <<>>
    /\ contractPathToData' = emptyMap
    /\ planned' = <<>>
    /\ compilationResults' = emptyMap
    /\ artifactCache' = emptyMap
    /\ pos' = <<1, 1, 1, 0>>
    /\ written' = <<>>
    /\ preFetched' = <<>>
    /\ returned' = NoReturn
    /\ UNCHANGED << env, sources, declared, solcVersionIfExists, gateInput, gateResult, watch,
                    hashInput, hashResult, driver, shouldPersist, error, earlierRun,
                    resolverInput, resolverResult >>

ModesNext ==
    \/ PlanContract
    \/ PreFetch
    \/ Dispatch
    \/ CompileFulfilled
    \/ CompileRejected
    \/ StartPersist
    \/ PersistContract
    \/ WriteArtifact
    \/ Return
    \/ CompileInOtherMode

SpecModes == ModesInit /\ [][ModesNext]_vars

(***************************************************************************)
(* Another pin : compileAsync is called once more, on the artifacts the      *)
(* earlier run left, by a Compiler constructed with another version pin      *)
(***************************************************************************)
\* Compiler.constructor on an artifacts directory that holds an artifact
PinsInit ==
    /\ Init
    /\ artifactsDir # emptyDir
    /\ opts.contracts # <<>>

\* a new Compiler that differs in SOLCJS_PATH or the solcVersion option only,
\* so that its pin is another, and compileAsync on the same directory
CompileWithOtherPin ==
    /\ pc = "done"
    /\ watchState = "off"
    /\ run < MaxRuns
    /\ \E environment \in Envs, solcVersion \in {NoVersion, OptPinVersion} :
          LET options == [opts EXCEPT !.solcVersion = solcVersion] IN
          /\ constructorSolcVersionIfExists(environment, options) # solcVersionIfExists
          /\ env' = environment
          /\ opts' = options
          /\ solcVersionIfExists' = constructorSolcVersionIfExists(environment, options)
    /\ earlierRun' =
          [ done |-> TRUE, pin |-> solcVersionIfExists,
            skipped |-> Range(opts.contracts) \ { planned[k].name : k \in 1..Len(planned) } ]
    /\ solcWrappersByVersion' = <<>>
    /\ run' = run + 1
    /\ pc' = "plan"
    /\ nameIdx' = 1
    /\ compilationUnitsByVersion' = <<>>
    /\ contractPathToData' = emptyMap
    /\ planned' = <<>>
    /\ compilationResults' = emptyMap
    /\ artifactCache' = emptyMap
    /\ pos' = <<1, 1, 1, 0>>
    /\ written' = <<>>
    /\ preFetched' = <<>>
    /\ returned' = NoReturn
    /\ UNCHANGED << sources, declared, artifactsDir, gateInput, gateResult, watch, hashInput,
                    hashResult, driver, shouldPersist, otherModeArtifacts, error,
                    resolverInput, resolverResult >>

PinsNext ==
    \/ PlanContract
    \/ PreFetch
    \/ Dispatch
    \/ CompileFulfilled
    \/ CompileRejected
    \/ StartPersist
    \/ PersistContract
    \/ WriteArtifact
    \/ Return
    \/ CompileWithOtherPin

SpecPins == PinsInit /\ [][PinsNext]_vars

(***************************************************************************)
(* The source-tree hasher on its own : the hash of a root before and after   *)
(* the import statements of one file are put into another order              *)
(***************************************************************************)
\* sequences without repetition over a set of files
importStatementsOver(files) ==
    { s \in UNION { [1..n -> files] : n \in 0..Cardinality(files) } :
        \A i, k \in 1..Len(s) : s[i] = s[k] => i = k }

\* projects without import cycles : A.sol may import B.sol and L.sol, B.sol
\* may import L.sol
HashProjects ==
    { [f \in Files |-> IF f = "A" THEN a ELSE IF f = "B" THEN b ELSE <<>>] :
        a \in importStatementsOver({"B", "L"}), b \in importStatementsOver({"L"}) }

\* the orders in which the same import statements can be stated
reorderings(s) == { p \in importStatementsOver(Range(s)) : Len(p) = Len(s) }

HashInputs ==
    UNION { { [importsOf |-> p, file |-> f, reordered |-> r, root |-> root] :
                r \in reorderings(p[f]), root \in Files } :
            p \in HashProjects, f \in Files }

\* the project after the edit of the file
reorderedProject(input) ==
    [input.importsOf EXCEPT ![input.file] = input.reordered]

HashInit ==
    /\ hashInput \in HashInputs
    /\ hashResult = NoHashResult
    /\ gateInput = NoGateInput
    /\ gateResult = NoGateResult
    /\ env = [SOLCJS_PATH |-> NoPath]
    /\ opts = [contracts |-> <<>>, solcVersion |-> NoVersion,
               shouldCompileIndependently |-> FALSE, shouldSaveStandardInput |-> FALSE,
               isOfflineMode |-> FALSE, useDockerisedSolc |-> FALSE]
    /\ declared = allNamed
    /\ watchState = "off"
    /\ watchedPaths = {}
    /\ buildsInFlight = 0
    /\ missedChange = FALSE
    /\ unwatchStopsWatching = TRUE
    /\ pendingBuilds = <<>>
    /\ sources = [f \in Files |-> OpenPragma]
    /\ solcVersionIfExists = NoVersion
    /\ solcWrappersByVersion = <<>>
    /\ artifactsDir = emptyDir
    /\ run = 1
    /\ pc = "hash"
    /\ error = ""
    /\ nameIdx = 1
    /\ compilationUnitsByVersion = <<>>
    /\ contractPathToData = emptyMap
    /\ planned = <<>>
    /\ compilationResults = emptyMap
    /\ artifactCache = emptyMap
    /\ pos = <<1, 1, 1, 0>>
    /\ written = <<>>
    /\ driver = "Compiler"
    /\ shouldPersist = TRUE
    /\ otherModeArtifacts = emptyDir
    /\ preFetched = <<>>
    /\ returned = NoReturn
    /\ earlierRun = NoEarlierRun
    /\ resolverInput = NoResolverInput
    /\ resolverResult = NoResolverResult

\* getSourceTreeHash(spyResolver, contractSource.path) on the project as it
\* was and on the project after the edit
HashSourceTree ==
    /\ pc = "hash"
    /\ ~hashResult.called
    /\ hashResult' =
           [ called |-> TRUE,
             before |-> sourceTreeHashIn(hashInput.importsOf, hashInput.root),
             after |-> sourceTreeHashIn(reorderedProject(hashInput), hashInput.root) ]
    /\ UNCHANGED << env, opts, sources, declared, solcVersionIfExists, gateInput, gateResult,
                    watch, hashInput, driver, shouldPersist, otherModeArtifacts, earlierRun,
                    resolverInput, resolverResult,
                    solcWrappersByVersion, artifactsDir, run, pc, error, nameIdx,
                    compilationUnitsByVersion, contractPathToData, planned,
                    compilationResults, artifactCache, pos, written, preFetched, returned >>

HashNext == HashSourceTree

SpecHash == HashInit /\ [][HashNext]_vars

(***************************************************************************)
(* The cache gate on its own : _shouldCompile applied to every ContractData *)
(* of a bounded set, on a registry that is empty or holds one wrapper       *)
(***************************************************************************)
GateArtifacts ==
    {NoArtifact} \cup
    [ schemaVersion : {LATEST_ARTIFACT_VERSION, OLD_ARTIFACT_VERSION},
      contractName : {"A"},
      compilerOutput : {NoOutput},
      sources : {{"A", "L"}},
      sourceTreeHashHex : {NoHash, getSourceTreeHash("A"), getSourceTreeHash("L")},
      standardInput : {NoStandardInput},
      compiler : [ name : {"solc"},
                   version : {EnvPinVersion, OptPinVersion, UnsupportedVersion},
                   settings : {ConfiguredSettings, OtherSettings} ] ]

GateInputs ==
    [ registry : { <<>>, <<normalizeSolcVersion(EnvPinVersion)>> },
      contractData : [ contractName : {"A"},
                       currentArtifactIfExists : GateArtifacts,
                       sourceTreeHashHex : {getSourceTreeHash("A"), getSourceTreeHash("L")} ] ]

GateInit ==
    /\ gateInput \in GateInputs
    /\ gateResult = NoGateResult
    /\ env = [SOLCJS_PATH |-> NoPath]
    /\ opts = [contracts |-> <<>>, solcVersion |-> NoVersion,
               shouldCompileIndependently |-> FALSE, shouldSaveStandardInput |-> FALSE,
               isOfflineMode |-> FALSE, useDockerisedSolc |-> FALSE]
    /\ declared = allNamed
    /\ watchState = "off"
    /\ watchedPaths = {}
    /\ buildsInFlight = 0
    /\ missedChange = FALSE
    /\ unwatchStopsWatching = TRUE
    /\ pendingBuilds = <<>>
    /\ sources = [f \in Files |-> IF f = "L" THEN [op |-> ">=", ver |-> <<0, 5, 0>>]
                                   ELSE [op |-> "^", ver |-> <<0, 6, 0>>]]
    /\ solcVersionIfExists = NoVersion
    /\ solcWrappersByVersion = gateInput.registry
    /\ artifactsDir = emptyDir
    /\ run = 1
    /\ pc = "gate"
    /\ error = ""
    /\ nameIdx = 1
    /\ compilationUnitsByVersion = <<>>
    /\ contractPathToData = emptyMap
    /\ planned = <<>>
    /\ compilationResults = emptyMap
    /\ artifactCache = emptyMap
    /\ pos = <<1, 1, 1, 0>>
    /\ written = <<>>
    /\ hashInput = NoHashInput
    /\ hashResult = NoHashResult
    /\ driver = "Compiler"
    /\ shouldPersist = TRUE
    /\ otherModeArtifacts = emptyDir
    /\ preFetched = <<>>
    /\ returned = NoReturn
    /\ earlierRun = NoEarlierRun
    /\ resolverInput = NoResolverInput
    /\ resolverResult = NoResolverResult

\* this._shouldCompile(contractData)
ShouldCompile ==
    /\ pc = "gate"
    /\ ~gateResult.called
    /\ LET r == shouldCompile(solcWrappersByVersion, gateInput.contractData) IN
       /\ gateResult' = [called |-> TRUE, throws |-> r.throws, value |-> r.value]
       /\ solcWrappersByVersion' =
              IF r.throws \/ gateInput.contractData.currentArtifactIfExists = NoArtifact
              THEN solcWrappersByVersion
              ELSE getSolcWrapperForVersion(solcWrappersByVersion,
                       gateInput.contractData.currentArtifactIfExists.compiler.version)
    /\ UNCHANGED << env, opts, sources, declared, solcVersionIfExists, gateInput, watch,
                    hashInput, hashResult, driver, shouldPersist, otherModeArtifacts, earlierRun,
                    resolverInput, resolverResult,
                    artifactsDir, run, pc, error, nameIdx, compilationUnitsByVersion,
                    contractPathToData, planned, compilationResults, artifactCache, pos,
                    written, preFetched, returned >>

GateNext == ShouldCompile

SpecGate == GateInit /\ [][GateNext]_vars

(***************************************************************************)
(* JSONCompiler (json_compiler.ts) : one bundle after the other, each       *)
(* compiled and persisted before the next is read; no cache gate, no plan   *)
(***************************************************************************)
\* the sources of the standard-JSON bundle of a name : the file and the
\* files it imports, in the key order of the bundle
bundleSources(project, contractFileName) ==
    [ k \in 1..Len(resolvedContractSources(contractFileName)) |->
        resolve(project, resolvedContractSources(contractFileName)[k]) ]

\* the range versionRanges.join(' ') : a version passes when it passes the
\* range of every source of the bundle
satisfiesEvery(version, versionRanges) ==
    \A k \in 1..Len(versionRanges) : satisfies(version, versionRanges[k])

\* semver.maxSatisfying(releases, versionRange) for the joined range
RECURSIVE maxSatisfyingEveryFrom(_, _, _, _)
maxSatisfyingEveryFrom(versions, versionRanges, i, max) ==
    IF i > Len(versions) THEN max
    ELSE IF satisfiesEvery(versions[i], versionRanges)
              /\ (max = NoShortVersion \/ compare(max, versions[i]) = -1)
         THEN maxSatisfyingEveryFrom(versions, versionRanges, i + 1, versions[i])
         ELSE maxSatisfyingEveryFrom(versions, versionRanges, i + 1, max)

\* the version for a bundle from the pragma of its first source only
jsonSelectSolcVersionOfRoot(pinned, bundle) == selectSolcVersion(pinned, bundle[1])

\* the version for a bundle : the pin when there is one, else the normalized
\* release of the greatest short version that satisfies the pragma of every
\* source of the bundle; NoVersion when no release does
jsonSelectSolcVersion(pinned, bundle) ==
    IF pinned # NoVersion
    THEN pinned
    ELSE LET versionRanges ==
                 [k \in 1..Len(bundle) |-> parseSolidityVersionRange(bundle[k].source)]
             solidityVersion ==
                 maxSatisfyingEveryFrom(releaseKeys, versionRanges, 1, NoShortVersion)
         IN IF solidityVersion # NoShortVersion
            THEN normalizeSolcVersion(releaseOf(solidityVersion))
            ELSE NoVersion

\* the artifact JSONCompiler._persistCompiledContractAsync builds for one
\* contract path of the compiler output (no sources, no sourceTreeHashHex)
jsonNewArtifact(contractPath, solcVersion, compilerInput, compilerOutput) ==
    [ schemaVersion |-> LATEST_ARTIFACT_VERSION,
      contractName |-> basename(contractPath),
      compilerOutput |->
          IF basename(contractPath) \in DOMAIN compilerOutput.contracts[contractPath]
          THEN compilerOutput.contracts[contractPath][basename(contractPath)]
          ELSE NoOutput,
      sources |-> {},
      sourceTreeHashHex |-> NoHash,
      standardInput |-> NoStandardInput,
      compiler |-> [name |-> "solc", version |-> solcVersion,
                    settings |-> compilerInput.settings] ]

\* nothing is persisted
jsonPersistNothing(dir, contractFileName, solcVersion, compilerInput, compilerOutput) == dir

\* JSONCompiler._persistCompiledContractAsync, from the call to the return :
\* the directory with one file for every contract path of the compiler output
jsonPersistCompiledContractAsync(dir, contractFileName, solcVersion, compilerInput, compilerOutput) ==
    [ n \in ArtifactNames |->
        IF n[1] = contractFileName
              /\ n[2] \in { basename(q) : q \in DOMAIN compilerOutput.contracts }
        THEN jsonNewArtifact(n[2], solcVersion, compilerInput, compilerOutput)
        ELSE dir[n] ]

\* the files one call of JSONCompiler._persistCompiledContractAsync writes,
\* in the order of Object.keys(compilerOutput.contracts)
RECURSIVE jsonPersistedNames(_, _, _)
jsonPersistedNames(contractFileName, compilerOutput, k) ==
    IF k > Len(compilerOutput.sourceKeys) THEN <<>>
    ELSE (IF compilerOutput.sourceKeys[k] \in DOMAIN compilerOutput.contracts
          THEN << <<contractFileName, basename(compilerOutput.sourceKeys[k])>> >>
          ELSE <<>>)
         \o jsonPersistedNames(contractFileName, compilerOutput, k + 1)

\* JSONCompiler.constructor, and the first lines of _compileContractsAsync;
\* the bundles are standard-JSON inputs, which no back-end of the family
\* "0.1." is given
JsonConstructor ==
    /\ \E c \in Configurations :
          /\ env = c.env
          /\ opts = c.opts
          /\ sources = c.sources
          /\ declared = c.declared
          /\ artifactsDir = c.artifactsDir
    /\ explored(env, opts, sources, declared, artifactsDir)
    /\ ~isSingleSourceFamily(opts.solcVersion)
    /\ solcVersionIfExists = constructorSolcVersionIfExists(env, opts)
    /\ gateInput = NoGateInput
    /\ gateResult = NoGateResult
    /\ solcWrappersByVersion = <<>>
    /\ watchState = "off"
    /\ watchedPaths = {}
    /\ buildsInFlight = 0
    /\ missedChange = FALSE
    /\ unwatchStopsWatching = TRUE
    /\ pendingBuilds = <<>>
    /\ run = 1
    /\ pc = "json-loop"
    /\ error = ""
    /\ nameIdx = 1
    /\ compilationUnitsByVersion = <<>>
    /\ contractPathToData = emptyMap
    /\ planned = <<>>
    /\ compilationResults = emptyMap
    /\ artifactCache = emptyMap
    /\ pos = <<1, 1, 1, 0>>
    /\ written = <<>>
    /\ hashInput = NoHashInput
    /\ hashResult = NoHashResult
    /\ driver = "JSONCompiler"
    /\ otherModeArtifacts = emptyDir
    /\ preFetched = <<>>
    /\ returned = NoReturn
    /\ earlierRun = NoEarlierRun
    /\ resolverInput = NoResolverInput
    /\ resolverResult = NoResolverResult

\* JSONCompiler.compileAsync is called : shouldPersist is true
JsonInit ==
    /\ JsonConstructor
    /\ shouldPersist = TRUE

\* JSONCompiler.getCompilerOutputsAsync is called : shouldPersist is false
JsonOutputsInit ==
    /\ JsonConstructor
    /\ shouldPersist = FALSE

\* one iteration of the loop up to the await of compiler.compileAsync
JsonCompile ==
    /\ pc = "json-loop"
    /\ nameIdx <= Len(opts.contracts)
    /\ LET contractFileName == opts.contracts[nameIdx]
           contractJSONSource == resolve(sources, contractFileName)
           bundle == bundleSources(sources, contractFileName)
           contractData ==
               [ contractName |-> basename(contractFileName),
                 currentArtifactIfExists |->
                     getContractArtifactIfExistsAsync(artifactsDir, contractFileName),
                 sourceTreeHashHex |-> NoHash ]
           solcVersion == jsonSelectSolcVersion(solcVersionIfExists, bundle)
       IN
       IF resolveThrows(contractFileName)
       THEN /\ pc' = "failed"
            /\ error' = "NameResolutionError"
            /\ UNCHANGED << contractPathToData, planned, solcWrappersByVersion,
                            compilationResults >>
       ELSE
       /\ contractPathToData' =
              [q \in DOMAIN contractPathToData \cup {contractJSONSource.path} |->
                  IF q = contractJSONSource.path THEN contractData ELSE contractPathToData[q]]
       /\ IF solcVersion = NoVersion
          THEN /\ pc' = "failed"
               /\ error' = "UnsatisfiableVersionError"
               /\ UNCHANGED << planned, solcWrappersByVersion, compilationResults >>
          ELSE /\ planned' = Append(planned,
                      [name |-> contractFileName, solcVersion |-> solcVersion])
               /\ IF createSolcInstanceThrows(solcWrappersByVersion, solcVersion)
                  THEN /\ pc' = "failed"
                       /\ error' = "UnsupportedVersionError"
                       /\ UNCHANGED << solcWrappersByVersion, compilationResults >>
                  ELSE /\ solcWrappersByVersion' =
                              getSolcWrapperForVersion(solcWrappersByVersion, solcVersion)
                       /\ compilationResults' =
                              [ij \in DOMAIN compilationResults \cup {<<nameIdx, 1>>} |->
                                  IF ij = <<nameIdx, 1>>
                                  THEN compileAsyncCall(solcVersion,
                                           resolvedContractSources(contractFileName), {})
                                  ELSE compilationResults[ij]]
                       /\ pc' = "json-await"
                       /\ UNCHANGED error
    /\ UNCHANGED << config, artifactsDir, run, nameIdx, compilationUnitsByVersion,
                    artifactCache, pos, written, preFetched, returned >>

\* the compilation of the bundle succeeds and the await returns : when
\* shouldPersist is set _persistCompiledContractAsync is called and hands its
\* first file to fsWrapper.writeFileAsync, else the loop goes to the next name
JsonCompileFulfilled ==
    /\ pc = "json-await"
    /\ LET contractFileName == opts.contracts[nameIdx]
           compilationResult ==
               compilationResultOf(declared, compilationResults[<<nameIdx, 1>>])
       IN /\ compilationResults' =
                 [compilationResults EXCEPT ![<<nameIdx, 1>>].state = "fulfilled"]
          /\ IF shouldPersist
                /\ jsonPersistedNames(contractFileName, compilationResult.output, 1) # <<>>
             THEN /\ pc' = "json-write"
                  /\ pos' = [pos EXCEPT ![4] = 1]
                  /\ UNCHANGED nameIdx
             ELSE /\ pc' = "json-loop"
                  /\ nameIdx' = nameIdx + 1
                  /\ UNCHANGED pos
    /\ UNCHANGED << config, solcWrappersByVersion, artifactsDir, run, error,
                    compilationUnitsByVersion, contractPathToData, planned, artifactCache,
                    written, preFetched, returned >>

\* fsWrapper.writeFileAsync has written the file it was handed, and
\* _persistCompiledContractAsync goes on : to the next file of the bundle or,
\* after the last, back to the loop, which goes to the next name
JsonPersist ==
    /\ pc = "json-write"
    /\ LET contractFileName == opts.contracts[nameIdx]
           solcVersion == planned[Len(planned)].solcVersion
           compilationResult ==
               compilationResultOf(declared, compilationResults[<<nameIdx, 1>>])
           names == jsonPersistedNames(contractFileName, compilationResult.output, 1)
           persisted ==
               jsonPersistCompiledContractAsync(artifactsDir, contractFileName,
                   solcVersion, compilationResult.input, compilationResult.output)
       IN /\ artifactsDir' =
                 [artifactsDir EXCEPT ![names[pos[4]]] = persisted[names[pos[4]]]]
          /\ written' = Append(written, names[pos[4]])
          /\ IF pos[4] = Len(names)
             THEN /\ pc' = "json-loop"
                  /\ nameIdx' = nameIdx + 1
                  /\ pos' = [pos EXCEPT ![4] = 0]
             ELSE /\ pos' = [pos EXCEPT ![4] = pos[4] + 1]
                  /\ UNCHANGED << pc, nameIdx >>
    /\ UNCHANGED << config, solcWrappersByVersion, run, error, compilationUnitsByVersion,
                    contractPathToData, planned, compilationResults, artifactCache,
                    preFetched, returned >>

\* the compilation of the bundle throws CompilationError
JsonCompileRejected ==
    /\ pc = "json-await"
    /\ compilationResults' = [compilationResults EXCEPT ![<<nameIdx, 1>>].state = "rejected"]
    /\ pc' = "failed"
    /\ error' = "CompilationError"
    /\ UNCHANGED << config, solcWrappersByVersion, artifactsDir, run, nameIdx,
                    compilationUnitsByVersion, contractPathToData, planned, artifactCache,
                    pos, written, preFetched, returned >>

\* what JSONCompiler._compileContractsAsync returns : "return [];"
jsonPromisedOutputs == <<>>

\* what the public method resolves to : nothing for compileAsync, the mapped
\* array for getCompilerOutputsAsync
jsonReturnValue == IF shouldPersist THEN <<>> ELSE firstOfEach(jsonPromisedOutputs)

\* the loop is over : _compileContractsAsync returns []
JsonReturn ==
    /\ pc = "json-loop"
    /\ nameIdx > Len(opts.contracts)
    /\ pc' = "json-done"
    /\ returned' = [done |-> TRUE, value |-> jsonReturnValue]
    /\ UNCHANGED << config, solcWrappersByVersion, artifactsDir, run, error, nameIdx,
                    compilationUnitsByVersion, contractPathToData, planned,
                    compilationResults, artifactCache, pos, written, preFetched >>

\* the public method is called again on the same JSONCompiler, nothing else
\* changed
JsonCompileAgain ==
    /\ pc = "json-done"
    /\ run < MaxRuns
    /\ run' = run + 1
    /\ pc' = "json-loop"
    /\ nameIdx' = 1
    /\ contractPathToData' = emptyMap
    /\ planned' = <<>>
    /\ compilationResults' = emptyMap
    /\ written' = <<>>
    /\ returned' = NoReturn
    /\ UNCHANGED << config, solcWrappersByVersion, artifactsDir, error,
                    compilationUnitsByVersion, artifactCache, pos, preFetched >>

JsonNext ==
    \/ JsonCompile
    \/ JsonCompileFulfilled
    \/ JsonPersist
    \/ JsonCompileRejected
    \/ JsonReturn
    \/ JsonCompileAgain

\* either public method of JSONCompiler
SpecJSON == (JsonInit \/ JsonOutputsInit) /\ [][JsonNext]_vars

\* either driver : the compile command or the compile-json command
DriversInit == Init \/ JsonInit

DriversNext == Next \/ JsonNext

SpecDrivers == DriversInit /\ [][DriversNext]_vars

(***************************************************************************)
(* Watch mode : Compiler.watchAsync and its change handler                 *)
(***************************************************************************)
\* _getPathsToWatch throws when a requested name does not resolve
getPathsToWatchThrows(contractNames) ==
    \E k \in 1..Len(contractNames) : resolveThrows(contractNames[k])

\* _getPathsToWatch : the absolute paths of every requested name and of the
\* files it imports, each once
getPathsToWatch(contractNames) ==
    UNION { Range(resolvedContractSources(contractNames[k])) : k \in 1..Len(contractNames) }

\* watcher.unwatch('*'), of chokidar : either it does what the comment beside
\* the call says, "Stop watching", and drops every watched path, or it drops
\* the one pattern '*' it is given and goes on watching the absolute paths
\* that were added
unwatch(paths) == IF unwatchStopsWatching THEN {} ELSE paths \ {"*"}

\* the local variables of _compileContractsAsync and the outcome of the call
build ==
    << pc, error, nameIdx, compilationUnitsByVersion, contractPathToData, planned,
       compilationResults, artifactCache, pos, written, preFetched, returned >>

\* the call of compileAsync whose steps are being taken, as it is suspended
\* at an await
suspendedBuild ==
    [ pc |-> pc, error |-> error, nameIdx |-> nameIdx,
      compilationUnitsByVersion |-> compilationUnitsByVersion,
      contractPathToData |-> contractPathToData, planned |-> planned,
      compilationResults |-> compilationResults, artifactCache |-> artifactCache,
      pos |-> pos, written |-> written, preFetched |-> preFetched,
      returned |-> returned ]

\* the event loop goes on with the call b, from the await it was suspended at
resumed(b) ==
    /\ pc' = b.pc
    /\ error' = b.error
    /\ nameIdx' = b.nameIdx
    /\ compilationUnitsByVersion' = b.compilationUnitsByVersion
    /\ contractPathToData' = b.contractPathToData
    /\ planned' = b.planned
    /\ compilationResults' = b.compilationResults
    /\ artifactCache' = b.artifactCache
    /\ pos' = b.pos
    /\ written' = b.written
    /\ preFetched' = b.preFetched
    /\ returned' = b.returned

\* the pragmas of the watched project : A.sol and B.sol need different releases
WatchedPragmas ==
    [f \in Files |-> IF f = "L" THEN [op |-> ">=", ver |-> <<0, 5, 0>>]
                     ELSE IF f = "A" THEN [op |-> "^", ver |-> <<0, 6, 0>>]
                     ELSE [op |-> "^", ver |-> <<0, 5, 0>>]]

\* watchAsync up to the first await : the watcher watches nothing, and the
\* first call of onFileChangedAsync has called compileAsync
WatchInit ==
    /\ env = [SOLCJS_PATH |-> NoPath]
    /\ opts \in [contracts : ContractNameLists,
                  solcVersion : {NoVersion},
                  shouldCompileIndependently : BOOLEAN,
                  shouldSaveStandardInput : {FALSE},
                  isOfflineMode : {FALSE},
                  useDockerisedSolc : {FALSE}]
    /\ sources = WatchedPragmas
    /\ declared \in DeclaredSets
    /\ solcVersionIfExists = constructorSolcVersionIfExists(env, opts)
    /\ gateInput = NoGateInput
    /\ gateResult = NoGateResult
    /\ solcWrappersByVersion = <<>>
    /\ artifactsDir = emptyDir
    /\ explored(env, opts, sources, declared, artifactsDir)
    /\ watchState = "initial"
    /\ unwatchStopsWatching \in BOOLEAN
    /\ watchedPaths = unwatch({})
    /\ buildsInFlight = 1
    /\ missedChange = FALSE
    /\ pendingBuilds = <<>>
    /\ run = 1
    /\ pc = "plan"
    /\ error = ""
    /\ nameIdx = 1
    /\ compilationUnitsByVersion = <<>>
    /\ contractPathToData = emptyMap
    /\ planned = <<>>
    /\ compilationResults = emptyMap
    /\ artifactCache = emptyMap
    /\ pos = <<1, 1, 1, 0>>
    /\ written = <<>>
    /\ hashInput = NoHashInput
    /\ hashResult = NoHashResult
    /\ driver = "Compiler"
    /\ shouldPersist = TRUE
    /\ otherModeArtifacts = emptyDir
    /\ preFetched = <<>>
    /\ returned = NoReturn
    /\ earlierRun = NoEarlierRun
    /\ resolverInput = NoResolverInput
    /\ resolverResult = NoResolverResult

\* onFileChangedAsync after the await of compileAsync : the error, if any, is
\* caught and logged; then, outside the try, _getPathsToWatch is called and
\* its paths are added to the watcher. When _getPathsToWatch throws the
\* promise of onFileChangedAsync rejects and nothing is added; the first
\* call is awaited by watchAsync, which then goes on to register the handler.
\* The call is over : the steps taken next are those of another call in
\* flight, if there is one
BuildSettled ==
    /\ watchState \in {"initial", "listening"}
    /\ buildsInFlight > 0
    /\ pc \in {"done", "failed"}
    /\ buildsInFlight' = buildsInFlight - 1
    /\ IF getPathsToWatchThrows(opts.contracts)
       THEN /\ watchState' = "failed"
            /\ UNCHANGED watchedPaths
       ELSE /\ watchState' = "listening"
            /\ watchedPaths' = watchedPaths \cup getPathsToWatch(opts.contracts)
    /\ IF pendingBuilds = <<>>
       THEN UNCHANGED << build, pendingBuilds >>
       ELSE /\ resumed(Head(pendingBuilds))
            /\ pendingBuilds' = Tail(pendingBuilds)
    /\ UNCHANGED << env, opts, sources, declared, solcVersionIfExists, gateInput, gateResult,
                    hashInput, hashResult, driver, shouldPersist, otherModeArtifacts, earlierRun,
                    resolverInput, resolverResult, unwatchStopsWatching,
                    missedChange, solcWrappersByVersion, artifactsDir, run >>

\* a watched file changes : the 'change' handler calls onFileChangedAsync,
\* which calls watcher.unwatch('*') and compileAsync, and returns without
\* awaiting; a call of compileAsync that is in flight stays in flight
OnFileChanged ==
    /\ watchState = "listening"
    /\ watchedPaths # {}
    /\ run < MaxBuilds
    /\ watchedPaths' = unwatch(watchedPaths)
    /\ buildsInFlight' = buildsInFlight + 1
    /\ pendingBuilds' =
           IF buildsInFlight > 0 THEN Append(pendingBuilds, suspendedBuild)
           ELSE pendingBuilds
    /\ missedChange' = FALSE
    /\ run' = run + 1
    /\ pc' = "plan"
    /\ error' = ""
    /\ nameIdx' = 1
    /\ compilationUnitsByVersion' = <<>>
    /\ contractPathToData' = emptyMap
    /\ planned' = <<>>
    /\ compilationResults' = emptyMap
    /\ artifactCache' = emptyMap
    /\ pos' = <<1, 1, 1, 0>>
    /\ written' = <<>>
    /\ preFetched' = <<>>
    /\ returned' = NoReturn
    /\ UNCHANGED << env, opts, sources, declared, solcVersionIfExists, gateInput, gateResult,
                    hashInput, hashResult, driver, shouldPersist, otherModeArtifacts, earlierRun,
                    resolverInput, resolverResult, unwatchStopsWatching,
                    watchState, solcWrappersByVersion, artifactsDir >>

\* two calls of compileAsync are in flight and the event loop goes on with
\* the other one : the continuation of an await of that call runs next
ResumeBuild ==
    /\ \E k \in 1..Len(pendingBuilds) :
          /\ pendingBuilds[k] # suspendedBuild
          /\ resumed(pendingBuilds[k])
          /\ pendingBuilds' = [pendingBuilds EXCEPT ![k] = suspendedBuild]
    /\ UNCHANGED << env, opts, sources, declared, solcVersionIfExists, gateInput, gateResult,
                    hashInput, hashResult, driver, shouldPersist, otherModeArtifacts, earlierRun,
                    resolverInput, resolverResult, unwatchStopsWatching,
                    watchState, watchedPaths, buildsInFlight, missedChange,
                    solcWrappersByVersion, artifactsDir, run >>

\* the files the planning loop has read so far. spyResolver.resolve and
\* getSourceTreeHash read the file of a requested name and the files it
\* imports at the start of its iteration, before the await of the artifact
\* read : while pc = "plan" the call is suspended at that await of the name
\* nameIdx, whose files it has read already, as it has those of the names
\* before it, skipped or not
sourcesReadByPlanner ==
    UNION { Range(resolvedContractSources(opts.contracts[k])) :
              k \in { i \in 1..Len(opts.contracts) :
                        /\ ~resolveThrows(opts.contracts[i])
                        /\ i <= nameIdx } }

\* a source of a build in flight changes after the planner has read it, at
\* any later point of the build, the rest of the planning loop included,
\* while the watcher does not watch it : no event is delivered
FileChangedDuringBuild ==
    /\ watchState \in {"initial", "listening"}
    /\ buildsInFlight > 0
    /\ \E f \in sourcesReadByPlanner : f \notin watchedPaths
    /\ ~missedChange
    /\ missedChange' = TRUE
    /\ UNCHANGED << env, opts, sources, declared, solcVersionIfExists, gateInput, gateResult,
                    watchState, watchedPaths, buildsInFlight, solcWrappersByVersion,
                    unwatchStopsWatching, pendingBuilds,
                    artifactsDir, run, pc, error, nameIdx, compilationUnitsByVersion,
                    contractPathToData, planned, compilationResults, artifactCache, pos,
                    written, hashInput, hashResult, driver, shouldPersist, otherModeArtifacts, earlierRun,
                    resolverInput, resolverResult,
                    preFetched, returned >>

WatchNext ==
    \/ PlanContract
    \/ PreFetch
    \/ Dispatch
    \/ CompileFulfilled
    \/ CompileRejected
    \/ StartPersist
    \/ PersistContract
    \/ WriteArtifact
    \/ Return
    \/ BuildSettled
    \/ OnFileChanged
    \/ ResumeBuild
    \/ FileChangedDuringBuild

SpecWatch == WatchInit /\ [][WatchNext]_vars

\* the steps of the process itself are taken when they can be, and the
\* back-end answers every invocation; the files change when they change
SpecWatchFair ==
    /\ SpecWatch
    /\ WF_vars(PlanContract)
    /\ WF_vars(PreFetch)
    /\ WF_vars(Dispatch)
    /\ WF_vars(CompileFulfilled \/ CompileRejected)
    /\ WF_vars(StartPersist)
    /\ WF_vars(PersistContract)
    /\ WF_vars(WriteArtifact)
    /\ WF_vars(Return)
    /\ WF_vars(BuildSettled)

(***************************************************************************)
(* The compile command with --watch (cli.ts) : the handler awaits           *)
(* watchAsync and then calls process.exit(0)                                *)
(***************************************************************************)
\* the handler has constructed the Compiler and called watchAsync
CliWatchInit == WatchInit

\* the first call of onFileChangedAsync settles : the paths are added to the
\* watcher, watchAsync registers the 'change' handler and resolves, and the
\* command handler, which awaited it, calls process.exit(0) in the same turn
\* of the event loop, before any event of the watcher is delivered; the
\* process is gone and its watcher with it. When _getPathsToWatch throws,
\* watchAsync rejects instead
CliWatchSettled ==
    /\ watchState = "initial"
    /\ buildsInFlight > 0
    /\ pc \in {"done", "failed"}
    /\ buildsInFlight' = buildsInFlight - 1
    /\ IF getPathsToWatchThrows(opts.contracts)
       THEN /\ watchState' = "failed"
            /\ UNCHANGED watchedPaths
       ELSE /\ watchState' = "exited"
            /\ watchedPaths' = {}
    /\ UNCHANGED << env, opts, sources, declared, solcVersionIfExists, gateInput, gateResult,
                    hashInput, hashResult, driver, shouldPersist, otherModeArtifacts, earlierRun,
                    resolverInput, resolverResult, unwatchStopsWatching, pendingBuilds,
                    missedChange, solcWrappersByVersion, artifactsDir, run, pc, error,
                    nameIdx, compilationUnitsByVersion, contractPathToData, planned,
                    compilationResults, artifactCache, pos, written, preFetched, returned >>

CliWatchNext ==
    \/ PlanContract
    \/ PreFetch
    \/ Dispatch
    \/ CompileFulfilled
    \/ CompileRejected
    \/ StartPersist
    \/ PersistContract
    \/ WriteArtifact
    \/ Return
    \/ CliWatchSettled
    \/ FileChangedDuringBuild

SpecCliWatch == CliWatchInit /\ [][CliWatchNext]_vars

(***************************************************************************)
(* JSONNameResolver (resolvers/json_name_resolver.ts) on its own : a         *)
(* contracts directory and a lookup name                                    *)
(***************************************************************************)
\* at most so many entries in the contracts directory, one fewer in a
\* directory below it
MaxEntries == 2

JSON_FILE_EXTENSION == ".json"

\* a name is its stem and its extension; a path is the sequence of its names
contractsDirPath == << [stem |-> "contracts", ext |-> ""] >>
currentWorkingDirectory == << [stem |-> "/cwd", ext |-> ""] >>

\* path.basename(p, ext) : the last name of the path, without the extension
\* when it is the one the name ends with
pathBasename(p, ext) ==
    LET last == p[Len(p)] IN
    IF last.ext = ext THEN [stem |-> last.stem, ext |-> ""] ELSE last

\* path.join, path.resolve and path.relative (of a path below another)
pathJoin(first, second) == first \o second
pathResolve(p) == currentWorkingDirectory \o p
pathRelative(from, to) == SubSeq(to, Len(from) + 1, Len(to))

\* String.replace('.json', '.sol') : the first name of the path that ends
\* with .json ends with .sol instead
replaceJsonBySol(p) ==
    IF \E k \in 1..Len(p) : p[k].ext = ".json"
    THEN LET first == CHOOSE k \in 1..Len(p) :
                          /\ p[k].ext = ".json"
                          /\ \A j \in 1..(k - 1) : p[j].ext # ".json"
         IN [p EXCEPT ![first].ext = ".sol"]
    ELSE p

\* fs.readFileSync(absolutePath).toString('utf-8') : what the file holds
readFileSync(absolutePath) == [contentOf |-> absolutePath]

\* undefined, and the callback of getAll in place of a lookup name
NoSource == [source |-> <<>>, path |-> <<>>, absolutePath |-> <<>>]
NoLookup == <<>>

\* the files and the directories a directory may hold
ResolverFileNames ==
    { [stem |-> "A", ext |-> ".json"], [stem |-> "B", ext |-> ".json"],
      [stem |-> "A", ext |-> ".sol"] }
ResolverDirNames == { [stem |-> "sub", ext |-> ""], [stem |-> "A", ext |-> ".json"] }
ResolverFiles == { [kind |-> "file", name |-> n, entries |-> <<>>] : n \in ResolverFileNames }

\* fs.readdirSync lists no name twice
distinctNames(dirContents) ==
    \A i, j \in 1..Len(dirContents) : dirContents[i].name = dirContents[j].name => i = j

ResolverSubDirs ==
    { [kind |-> "dir", name |-> n, entries |-> s] :
        n \in ResolverDirNames,
        s \in { c \in UNION { [1..k -> ResolverFiles] : k \in 0..(MaxEntries - 1) } :
                  distinctNames(c) } }

\* the contracts directory, as fs.readdirSync lists it
ResolverDirContents ==
    { c \in UNION { [1..k -> ResolverFiles \cup ResolverSubDirs] : k \in 0..MaxEntries } :
        distinctNames(c) }

\* the lookup names : A, A.json, A.sol, sub/A, B.json and C
LookupNames ==
    { << [stem |-> "A", ext |-> ""] >>, << [stem |-> "A", ext |-> ".json"] >>,
      << [stem |-> "A", ext |-> ".sol"] >>,
      << [stem |-> "sub", ext |-> ""], [stem |-> "A", ext |-> ""] >>,
      << [stem |-> "B", ext |-> ".json"] >>, << [stem |-> "C", ext |-> ""] >> }

\* the callback of resolveIfExists : a file whose basename without .json is
\* the normalized lookup name becomes the contract source, and true is returned
onFileOfResolveIfExists(lookupContractName, filePath, found) ==
    IF pathBasename(filePath, JSON_FILE_EXTENSION)
         = pathBasename(lookupContractName, JSON_FILE_EXTENSION)
    THEN LET contractPath == pathJoin(contractsDirPath, filePath)
             absoluteContractPath == pathResolve(contractPath)
         IN [ isComplete |-> TRUE,
              contractSource |-> [ source |-> readFileSync(absoluteContractPath),
                                   path |-> replaceJsonBySol(contractPath),
                                   absolutePath |-> absoluteContractPath ],
              contractSources |-> found.contractSources ]
    ELSE [ isComplete |-> FALSE, contractSource |-> found.contractSource,
           contractSources |-> found.contractSources ]

\* the callback of getAll : every file is pushed, nothing is returned
onFileOfGetAll(filePath, found) ==
    LET contractPath == pathJoin(contractsDirPath, filePath)
        absoluteContractPath == pathResolve(contractPath)
    IN [ isComplete |-> FALSE, contractSource |-> found.contractSource,
         contractSources |->
             Append(found.contractSources,
                    [ source |-> readFileSync(absoluteContractPath), path |-> contractPath,
                      absolutePath |-> absoluteContractPath ]) ]

\* the traversal goes on whatever the callback returned
traversalNeverStops(isComplete) == FALSE

\* if (isComplete) return isComplete
traversalStops(isComplete) == isComplete

\* _traverseContractsDir : the entries in the order of readdirSync, a
\* directory traversed before the entry after it, onFile called on every
\* file that ends with .json, until a call returns true
RECURSIVE traverseContractsDir(_, _, _, _)
traverseContractsDir(dirPath, dirContents, lookupContractName, found) ==
    IF dirContents = <<>>
    THEN [found EXCEPT !.isComplete = FALSE]
    ELSE LET entry == Head(dirContents)
             absoluteEntryPath == pathJoin(dirPath, <<entry.name>>)
             entryPath == pathRelative(contractsDirPath, absoluteEntryPath)
             after ==
                 IF entry.kind = "dir"
                 THEN traverseContractsDir(absoluteEntryPath, entry.entries,
                                           lookupContractName, found)
                 ELSE IF entry.name.ext = JSON_FILE_EXTENSION
                 THEN IF lookupContractName = NoLookup
                      THEN onFileOfGetAll(entryPath, found)
                      ELSE onFileOfResolveIfExists(lookupContractName, entryPath, found)
                 ELSE [found EXCEPT !.isComplete = FALSE]
         IN IF traversalStops(after.isComplete)
            THEN after
            ELSE traverseContractsDir(dirPath, Tail(dirContents), lookupContractName, after)

\* nothing found yet
nothingFound == [isComplete |-> FALSE, contractSource |-> NoSource, contractSources |-> <<>>]

\* JSONNameResolver.resolveIfExists
resolveIfExists(dirContents, lookupContractName) ==
    traverseContractsDir(contractsDirPath, dirContents, lookupContractName, nothingFound)
        .contractSource

\* JSONNameResolver.getAll
getAll(dirContents) ==
    traverseContractsDir(contractsDirPath, dirContents, NoLookup, nothingFound).contractSources

ResolverInit ==
    /\ resolverInput \in [dirContents : ResolverDirContents, lookupContractName : LookupNames]
    /\ resolverResult = NoResolverResult
    /\ hashInput = NoHashInput
    /\ hashResult = NoHashResult
    /\ gateInput = NoGateInput
    /\ gateResult = NoGateResult
    /\ env = [SOLCJS_PATH |-> NoPath]
    /\ opts = [contracts |-> <<>>, solcVersion |-> NoVersion,
               shouldCompileIndependently |-> FALSE, shouldSaveStandardInput |-> FALSE,
               isOfflineMode |-> FALSE, useDockerisedSolc |-> FALSE]
    /\ declared = allNamed
    /\ watchState = "off"
    /\ watchedPaths = {}
    /\ buildsInFlight = 0
    /\ missedChange = FALSE
    /\ unwatchStopsWatching = TRUE
    /\ pendingBuilds = <<>>
    /\ sources = [f \in Files |-> OpenPragma]
    /\ solcVersionIfExists = NoVersion
    /\ solcWrappersByVersion = <<>>
    /\ artifactsDir = emptyDir
    /\ run = 1
    /\ pc = "resolver"
    /\ error = ""
    /\ nameIdx = 1
    /\ compilationUnitsByVersion = <<>>
    /\ contractPathToData = emptyMap
    /\ planned = <<>>
    /\ compilationResults = emptyMap
    /\ artifactCache = emptyMap
    /\ pos = <<1, 1, 1, 0>>
    /\ written = <<>>
    /\ driver = "JSONCompiler"
    /\ shouldPersist = TRUE
    /\ otherModeArtifacts = emptyDir
    /\ preFetched = <<>>
    /\ returned = NoReturn
    /\ earlierRun = NoEarlierRun

\* resolveIfExists(lookupContractName) and getAll() on the same directory
ResolveIfExists ==
    /\ pc = "resolver"
    /\ ~resolverResult.called
    /\ resolverResult' =
           [ called |-> TRUE,
             resolved |-> resolveIfExists(resolverInput.dirContents,
                                          resolverInput.lookupContractName),
             all |-> getAll(resolverInput.dirContents) ]
    /\ UNCHANGED << env, opts, sources, declared, solcVersionIfExists, gateInput, gateResult,
                    watch, hashInput, hashResult, driver, shouldPersist, otherModeArtifacts,
                    earlierRun, resolverInput,
                    solcWrappersByVersion, artifactsDir, run, pc, error, nameIdx,
                    compilationUnitsByVersion, contractPathToData, planned,
                    compilationResults, artifactCache, pos, written, preFetched, returned >>

ResolverNext == ResolveIfExists

SpecResolver == ResolverInit /\ [][ResolverNext]_vars

(***************************************************************************)
(* Properties                                                              *)
(***************************************************************************)
\* the back-end invocations made in this run
invocations == DOMAIN compilationResults

\* the units of the plan that hold a path, as <<i, j>>
unitsHolding(contractPath) ==
    { ij \in unitIndices(compilationUnitsByVersion) :
        contractPath \in Range(compilationUnitsByVersion[ij[1]].units[ij[2]]) }

unitAt(ij) == compilationUnitsByVersion[ij[1]].units[ij[2]]

\* the artifact the writer produces for a path from the unit at <<i, j>>
artifactFrom(contractPath, ij) ==
    LET solcVersion == compilationUnitsByVersion[ij[1]].solcVersion
        r == compilationResultOf(declared, compilationResults[ij])
    IN newArtifact(contractPath, solcVersion, r.input, r.output)

\* C1 : cache-gate idempotence. A run of compileAsync that follows a
\* successful run of it, with no change to the sources, the settings or the
\* artifacts directory, makes no back-end invocation and writes no artifact.
C1_SecondRunDoesNothing ==
    (shouldPersist /\ run >= 2) => (invocations = {} /\ written = <<>>)

\* the four conditions of the cache gate
gateConditions(contractData) ==
    \/ contractData.currentArtifactIfExists = NoArtifact
    \/ contractData.currentArtifactIfExists.schemaVersion # LATEST_ARTIFACT_VERSION
    \/ contractData.currentArtifactIfExists.compiler.settings # ConfiguredSettings
    \/ contractData.currentArtifactIfExists.sourceTreeHashHex # contractData.sourceTreeHashHex

\* C2 as stated : the gate answers "must rebuild" exactly when one of the
\* four conditions holds, and "skip" in every other case.
C2_GateAnswersIffConditions ==
    gateResult.called =>
        /\ ~gateResult.throws
        /\ gateResult.value <=> gateConditions(gateInput.contractData)

\* the gate looks up a wrapper for the version the artifact records, and no
\* wrapper family matches it
gateHasNoWrapper(input) ==
    /\ input.contractData.currentArtifactIfExists # NoArtifact
    /\ normalizeSolcVersion(input.contractData.currentArtifactIfExists.compiler.version)
           \notin Range(input.registry)
    /\ ~hasSolcWrapper(
           normalizeSolcVersion(input.contractData.currentArtifactIfExists.compiler.version))

\* C2 amended : when there is an artifact whose recorded version has no
\* wrapper family the gate raises the unsupported-version error; in every
\* other case it answers "must rebuild" exactly when one of the four
\* conditions holds and "skip" otherwise.
C2_GateAnswersIffConditionsOrThrows ==
    gateResult.called =>
        IF gateHasNoWrapper(gateInput)
        THEN gateResult.throws
        ELSE /\ ~gateResult.throws
             /\ gateResult.value <=> gateConditions(gateInput.contractData)

\* the gate answered "skip" for an artifact that passes every comparison
C2_Witness ==
    /\ gateResult.called
    /\ ~gateResult.throws
    /\ ~gateResult.value
    /\ gateInput.contractData.currentArtifactIfExists # NoArtifact

\* C3 : smallest unit wins. When the writer has finished, the artifact of
\* every requested path that the plan holds is the one produced from a unit
\* of the fewest files among the units holding the path.
C3_SmallestUnitWins ==
    (shouldPersist /\ pc = "done") =>
        \A contractPath \in DOMAIN contractPathToData :
            unitsHolding(contractPath) # {} =>
                \E ij \in unitsHolding(contractPath) :
                    /\ \A other \in unitsHolding(contractPath) :
                           Len(unitAt(ij)) <= Len(unitAt(other))
                    /\ artifactsDir[<<basename(contractPath), basename(contractPath)>>]
                           = artifactFrom(contractPath, ij)

\* the writer has finished a plan in which a requested path is held first by
\* a larger unit and later by a smaller one
C3_Witness ==
    /\ pc = "done"
    /\ \E contractPath \in DOMAIN contractPathToData :
         \E a, b \in unitsHolding(contractPath) :
            /\ a[1] < b[1] \/ (a[1] = b[1] /\ a[2] < b[2])
            /\ Len(unitAt(a)) > Len(unitAt(b))
            /\ Cardinality(artifactsDir[<<contractPath, contractPath>>].sources) = Len(unitAt(b))

\* the unit the writer is at
unitSizeAtPos == Len(compilationUnitsByVersion[pos[1]].units[pos[2]])

\* the files written by the step
newlyWritten == { written'[k] : k \in (Len(written) + 1)..Len(written') }

\* the path the writer is at
pathAtPos == compilationUnitsByVersion[pos[1]].units[pos[2]][pos[3]]

\* C4 : during the writer pass the artifact of a path already written in
\* this run is written again only from a unit of strictly fewer files than
\* the size recorded for the path, and the recorded size never increases.
\* The size recorded for a path changes only to the size of a strictly
\* smaller unit the writer is at; the writer starts to persist a path that
\* has a recorded size only when it records a new one; and a file is
\* written only for the path whose persisting was so started.
C4_OverwriteOnlyIfStrictlySmaller ==
    [][ (pc = "write" /\ pc' = "write") =>
          /\ \A contractPath \in DOMAIN artifactCache :
                /\ contractPath \in DOMAIN artifactCache'
                /\ artifactCache'[contractPath] <= artifactCache[contractPath]
                /\ artifactCache'[contractPath] # artifactCache[contractPath]
                     => /\ unitSizeAtPos < artifactCache[contractPath]
                        /\ artifactCache'[contractPath] = unitSizeAtPos
          /\ (pos[4] = 0 /\ pos'[4] > 0 /\ pathAtPos \in DOMAIN artifactCache)
                => artifactCache'[pathAtPos] < artifactCache[pathAtPos]
          /\ written' # written =>
                /\ pos[4] > 0
                /\ artifactCache' = artifactCache
                /\ artifactCache[pathAtPos] = unitSizeAtPos
                /\ \A n \in newlyWritten : n[1] = basename(pathAtPos) ]_vars

\* the writer is past a second unit of the same size that holds a path it
\* has written, and the artifact of the path was written once
C4_Witness ==
    /\ pc = "write"
    /\ \E contractPath \in DOMAIN artifactCache :
         \E a, b \in unitsHolding(contractPath) :
            /\ a # b
            /\ Len(unitAt(a)) = Len(unitAt(b))
            /\ pos[1] > b[1] /\ pos[1] > a[1]
            /\ Cardinality({ k \in 1..Len(written) :
                     written[k] = <<contractPath, contractPath>> }) = 1

\* the roots of the units of the i-th version, in order (the root is the
\* first key of its unit)
rootsOfUnits(i) ==
    [ j \in 1..Len(compilationUnitsByVersion[i].units) |->
        compilationUnitsByVersion[i].units[j][1] ]

\* the rebuilt roots that selected a version, in request order
RECURSIVE rootsPlannedFor(_, _)
rootsPlannedFor(solcVersion, k) ==
    IF k > Len(planned) THEN <<>>
    ELSE IF planned[k].solcVersion = solcVersion
         THEN <<planned[k].name>> \o rootsPlannedFor(solcVersion, k + 1)
         ELSE rootsPlannedFor(solcVersion, k + 1)

\* C5 : plan structure. No version key maps to an empty sequence; in
\* batched mode every key maps to one unit; in independent mode the units
\* of a key are those of the rebuilt roots that selected it, one unit per
\* root, in request order.
C5_PlanStructure ==
    LET plan == compilationUnitsByVersion IN
    /\ \A i \in 1..Len(plan) : Len(plan[i].units) >= 1
    /\ \A i, k \in 1..Len(plan) : plan[i].solcVersion = plan[k].solcVersion => i = k
    /\ \A k \in 1..Len(planned) :
          \E i \in 1..Len(plan) : plan[i].solcVersion = planned[k].solcVersion
    /\ ~compileContractsOpts.shouldCompileIndependently =>
          \A i \in 1..Len(plan) : Len(plan[i].units) = 1
    /\ compileContractsOpts.shouldCompileIndependently =>
          \A i \in 1..Len(plan) : rootsOfUnits(i) = rootsPlannedFor(plan[i].solcVersion, 1)

\* planning in independent mode has put the units of two different roots
\* under one version
C5_Witness ==
    /\ compileContractsOpts.shouldCompileIndependently
    /\ planningComplete
    /\ \E i \in 1..Len(compilationUnitsByVersion) :
          /\ Len(compilationUnitsByVersion[i].units) = 2
          /\ rootsOfUnits(i)[1] # rootsOfUnits(i)[2]

\* the pin : the version of SOLCJS_PATH when set, else the solcVersion option
pin == IF env.SOLCJS_PATH # NoPath THEN env.SOLCJS_PATH.version ELSE opts.solcVersion

\* C6 : version pin dominance. With a pin, in either driver, the version
\* chosen for every rebuilt root or bundle, and every key of the plan, is
\* the pin, and no unsatisfiable-version error is raised.
C6_PinDominance ==
    pin # NoVersion =>
        /\ \A k \in 1..Len(planned) : planned[k].solcVersion = pin
        /\ \A i \in 1..Len(compilationUnitsByVersion) :
              compilationUnitsByVersion[i].solcVersion = pin
        /\ error # "UnsatisfiableVersionError"

\* both pins are set, and a root whose pragma no release satisfies has been
\* planned with the environment pin
C6_Witness ==
    /\ env.SOLCJS_PATH # NoPath
    /\ opts.solcVersion # NoVersion
    /\ pc \in {"done", "json-done"}
    /\ \E k \in 1..Len(planned) :
          /\ sources[planned[k].name].ver = <<9, 9, 9>>
          /\ planned[k].solcVersion = EnvPinVersion

\* the artifacts written in this run
writtenArtifacts == { artifactsDir[written[k]] : k \in 1..Len(written) }

\* C7 as stated : with a pin, the key of the plan and the compiler.version of
\* every artifact written is the pin with a leading "v" stripped.
C7_PlanKeyIsNormalizedPin ==
    pin # NoVersion =>
        /\ \A i \in 1..Len(compilationUnitsByVersion) :
              compilationUnitsByVersion[i].solcVersion = normalizeSolcVersion(pin)
        /\ \A a \in writtenArtifacts : a.compiler.version = normalizeSolcVersion(pin)

\* C7 amended : with a pin, the key of the plan and the compiler.version of
\* every artifact written is the pin as given, a leading "v" included; the
\* pin is normalized only as the key of the wrapper registry.
C7_PlanKeyIsPinVerbatim ==
    pin # NoVersion =>
        /\ \A i \in 1..Len(compilationUnitsByVersion) :
              compilationUnitsByVersion[i].solcVersion = pin
        /\ \A a \in writtenArtifacts : a.compiler.version = pin
        /\ \A w \in Range(solcWrappersByVersion) : ~w.v
        /\ (pc \in {"dispatch", "write", "done"} /\ compilationUnitsByVersion # <<>>)
              => [pin EXCEPT !.v = FALSE] \in Range(solcWrappersByVersion)

\* a run pinned to a version written with a leading "v" has written artifacts
C7_Witness ==
    /\ pin # NoVersion
    /\ pin.v
    /\ pc = "done"
    /\ written # <<>>

\* a short version of the release index that satisfies the range, and none that
\* satisfies it is greater
isGreatestSatisfying(short, range) ==
    /\ satisfies(short, range)
    /\ \A i \in 1..Len(releases) :
          satisfies(releases[i].short, range) => compare(releases[i].short, short) <= 0

\* C8 : without a pin, the version chosen for a rebuilt root is the
\* normalized full version of the greatest short version of the release
\* index that satisfies the pragma of the root.
C8_MaxSatisfyingRelease ==
    pin = NoVersion =>
        \A k \in 1..Len(planned) :
            \E i \in 1..Len(releases) :
                /\ isGreatestSatisfying(releases[i].short, sources[planned[k].name])
                /\ planned[k].solcVersion = [releases[i].full EXCEPT !.v = FALSE]
                /\ \E u \in 1..Len(compilationUnitsByVersion) :
                      compilationUnitsByVersion[u].solcVersion = planned[k].solcVersion

\* without a pin, a root whose pragma two releases satisfy got the greater
C8_Witness ==
    /\ pin = NoVersion
    /\ \E k \in 1..Len(planned) :
          /\ Cardinality({ i \in 1..Len(releases) :
                  satisfies(releases[i].short, sources[planned[k].name]) }) >= 2
          /\ planned[k].solcVersion.short = <<0, 5, 17>>

\* some release satisfies the pragma of the file
satisfiable(name) == \E i \in 1..Len(releases) : satisfies(releases[i].short, sources[name])

\* C9 : unsatisfiable constraint. Without a pin, once a root that passed
\* the cache gate has a pragma that no release satisfies, the run has
\* failed with the unsatisfiable-version error; a run that failed so made
\* no back-end invocation and wrote no artifact.
C9_UnsatisfiableAborts ==
    /\ (pin = NoVersion /\ \E q \in DOMAIN contractPathToData : ~satisfiable(q))
          => (pc = "failed" /\ error = "UnsatisfiableVersionError")
    /\ error = "UnsatisfiableVersionError"
          => /\ pc = "failed"
             /\ invocations = {}
             /\ written = <<>>
             /\ run = 1 => artifactsDir \in InitialArtifactsDirs

\* the run failed on the second root, after the first was planned
C9_Witness ==
    /\ error = "UnsatisfiableVersionError"
    /\ Len(planned) >= 1
    /\ compilationUnitsByVersion # <<>>

\* C10 : phase ordering. A back-end invocation exists only when the planner
\* has gone through every requested name; the writer runs, and an
\* artifact is written, only when every unit of the plan has been invoked
\* and every invocation has completed.
C10_PhaseOrdering ==
    /\ invocations # {} => nameIdx > Len(opts.contracts)
    /\ (pc = "write" \/ written # <<>>) =>
          /\ nameIdx > Len(opts.contracts)
          /\ invocations = unitIndices(compilationUnitsByVersion)
          /\ \A ij \in invocations : compilationResults[ij].state = "fulfilled"

\* artifacts are being written after two invocations for two requested names
C10_Witness ==
    /\ pc = "write"
    /\ written # <<>>
    /\ Len(opts.contracts) >= 2
    /\ Cardinality(invocations) >= 2

\* C11 : dispatch and pairing. Once the dispatcher has run, every unit of the
\* plan has exactly one back-end invocation, issued with the contents of the
\* unit under the version of its key, all of them issued before any has
\* completed and all with the same import remappings; and whatever the order
\* in which they completed, every artifact the writer writes while it is at
\* unit j of the i-th version comes from the result of the invocation of
\* that unit : it holds the sources of that output, and its compiled contract
\* was compiled from the files of that unit under the version of its key.
C11_DispatchAndPairing ==
    /\ [] ( (pc \in {"dispatch", "write", "done"} \/ error = "CompilationError") =>
              /\ invocations = unitIndices(compilationUnitsByVersion)
              /\ \A ij \in invocations :
                    /\ compilationResults[ij].contracts = unitAt(ij)
                    /\ compilationResults[ij].solcVersion
                           = compilationUnitsByVersion[ij[1]].solcVersion
                    /\ compilationResults[ij].importRemappings =
                           getDependencyNameToPackagePath(
                               allResolvedContractSources(compilationUnitsByVersion))
              /\ \A a, b \in invocations :
                    compilationResults[a].importRemappings
                        = compilationResults[b].importRemappings )
    /\ [][ (pc = "write" /\ written' # written) =>
             \A n \in newlyWritten :
                /\ artifactsDir'[n].sources =
                       compilationResultOf(declared,
                           compilationResults[<<pos[1], pos[2]>>]).output.sources
                /\ artifactsDir'[n].compilerOutput # NoOutput =>
                       /\ artifactsDir'[n].compilerOutput.unit = Range(unitAt(<<pos[1], pos[2]>>))
                       /\ artifactsDir'[n].compilerOutput.solcVersion =
                              normalizeSolcVersion(
                                  compilationUnitsByVersion[pos[1]].solcVersion) ]_vars

\* the writer has written the artifact of a path that the first unit does
\* not hold, after more than one invocation
C11_Witness ==
    /\ pc = "write"
    /\ Cardinality(invocations) >= 2
    /\ \E contractPath \in DOMAIN artifactCache :
          /\ contractPath \notin Range(unitAt(<<1, 1>>))
          /\ <<basename(contractPath), basename(contractPath)>> \in Range(written)

\* C12 : all-or-nothing. A run that aborted with a fatal error has left no
\* file in the artifacts directory : nothing it wrote remains.
C12_AllOrNothing ==
    pc = "failed" => written = <<>>

\* C13 : compile-error propagation. Once a back-end invocation of a run has
\* failed, compileAsync has failed with CompilationError and the run has
\* written no artifact, whatever the outcome of the other invocations.
C13_CompileErrorPropagation ==
    (\E ij \in invocations : compilationResults[ij].state = "rejected") =>
        /\ pc = "failed"
        /\ error = "CompilationError"
        /\ written = <<>>
        /\ run = 1 => artifactsDir \in InitialArtifactsDirs

\* one invocation failed and another one succeeded
C13_Witness ==
    /\ pc = "failed"
    /\ \E a, b \in invocations :
          /\ compilationResults[a].state = "rejected"
          /\ compilationResults[b].state = "fulfilled"

\* the writer stopped at a requested path of the unit it is at
writerStoppedAt(contractPath) ==
    /\ pc = "failed"
    /\ error \notin {"NameResolutionError", "UnsupportedVersionError",
                     "UnsatisfiableVersionError", "CompilationError"}
    /\ pos[1] <= Len(compilationUnitsByVersion)
    /\ contractPath \in Range(unitAt(<<pos[1], pos[2]>>))
    /\ contractPath \in DOMAIN contractPathToData

\* C14 : missing contract. The writer never goes past a requested path for
\* whose contract name the compiler output holds no compiled record : it
\* stops with the missing-contract error, and no file <name>-*.json of that
\* contract is written.
C14_MissingContractError ==
    /\ (shouldPersist /\ pc = "done") =>
          \A contractPath \in DOMAIN contractPathToData : declared[contractPath] = "named"
    /\ \A contractPath \in DOMAIN contractPathToData :
          (writerStoppedAt(contractPath) /\ declared[contractPath] # "named") =>
              /\ error = "MissingContractError"
              /\ \A k \in 1..Len(written) : written[k][1] # basename(contractPath)

\* C15 : standard input. With shouldSaveStandardInput every artifact written
\* holds the standard-JSON input that was sent for its unit, and without it
\* no artifact holds an input.
C15_StandardInputSaved ==
    \A k \in 1..Len(written) :
        IF opts.shouldSaveStandardInput
        THEN /\ artifactsDir[written[k]].standardInput # NoStandardInput
             /\ artifactsDir[written[k]].standardInput.sources
                    = artifactsDir[written[k]].sources
        ELSE artifactsDir[written[k]].standardInput = NoStandardInput

\* the roots that were planned
plannedRoots == { planned[k].name : k \in 1..Len(planned) }

\* C16 : cross-root dedup, batched mode. When a batched run that rebuilt the
\* roots A and B under one version is over, the plan has one unit holding A,
\* B and L, one invocation was made, and the files written are A-A.json,
\* B-B.json and A-L.json.
C16_CrossRootDedup ==
    ( /\ pc = "done"
      /\ shouldPersist
      /\ ~compileContractsOpts.shouldCompileIndependently
      /\ plannedRoots = {"A", "B"}
      /\ Len(compilationUnitsByVersion) = 1 ) =>
        /\ Len(compilationUnitsByVersion[1].units) = 1
        /\ Range(unitAt(<<1, 1>>)) = {"A", "B", "L"}
        /\ Cardinality(invocations) = 1
        /\ Range(written) = { <<"A", "A">>, <<"B", "B">>, <<"A", "L">> }

\* the registry holds no version twice
noWrapperTwice(registry) ==
    \A i, k \in 1..Len(registry) : registry[i] = registry[k] => i = k

\* the first registry is the beginning of the second
isPrefix(first, second) ==
    /\ Len(first) <= Len(second)
    /\ \A i \in 1..Len(first) : first[i] = second[i]

\* C20 : wrapper registry. The registry never holds two wrappers for one
\* normalized version, its keys are written without a leading "v", and no
\* step removes or replaces an entry : a later request for a version, also
\* one written with a leading "v", finds the wrapper created first.
C20_WrapperRegistry ==
    /\ [] ( /\ noWrapperTwice(solcWrappersByVersion)
            /\ \A w \in Range(solcWrappersByVersion) : ~w.v )
    /\ [][ isPrefix(solcWrappersByVersion, solcWrappersByVersion') ]_vars

\* in a second run under a pin written with a leading "v", the gate has
\* asked for the wrapper of the version the artifact records, and the
\* registry holds the one wrapper the first run created
C20_Witness ==
    /\ run = 2
    /\ pin # NoVersion
    /\ pin.v
    /\ nameIdx > 1
    /\ getContractArtifactIfExistsAsync(artifactsDir, opts.contracts[1]).compiler.version = pin
    /\ Len(solcWrappersByVersion) = 1

\* C17 : errors never terminate the watcher. watchAsync never fails, and once
\* a build that failed has been handled the watcher is listening again with
\* the paths of the project installed, so that a change starts a new build.
C17_WatcherSurvivesErrors ==
    /\ watchState # "failed"
    /\ (watchState # "off" /\ buildsInFlight = 0 /\ pc = "failed") =>
          /\ watchState = "listening"
          /\ watchedPaths = getPathsToWatch(opts.contracts)
          /\ watchedPaths # {}

\* C18 : one build at a time. In watch mode at most one call of compileAsync
\* is in flight at any time : a change event that arrives while a build is
\* running starts no second build over it.
C18_OneBuildInFlight ==
    watchState # "off" => buildsInFlight <= 1

\* C18 for a watcher whose unwatch('*') drops every watched path : at most
\* one call of compileAsync is in flight, and while it is the watcher watches
\* nothing.
C18_OneBuildInFlightIfUnwatchStops ==
    (watchState # "off" /\ unwatchStopsWatching) =>
        /\ buildsInFlight <= 1
        /\ buildsInFlight = 1 => watchedPaths = {}

\* C19 : a change during a build is not lost. Whenever a file has changed
\* while a build was in flight (of a project whose requested names all
\* resolve, so that the watcher goes on), a new build is eventually started.
C19_ChangeNotLost ==
    (missedChange /\ ~getPathsToWatchThrows(opts.contracts)) ~> ~missedChange

\* the step asks for the wrapper of a version : the gate for the version an
\* existing artifact records, the dispatcher for a key of the plan, the JSON
\* driver for the version selected for the bundle
wrapperRequests ==
    IF pc = "plan" /\ ~planningComplete
    THEN IF resolveThrows(opts.contracts[nameIdx])
            \/ getContractArtifactIfExistsAsync(artifactsDir, opts.contracts[nameIdx]) = NoArtifact
         THEN {}
         ELSE { getContractArtifactIfExistsAsync(artifactsDir, opts.contracts[nameIdx])
                    .compiler.version }
    ELSE IF dispatchIsDue
    THEN Range(versionsOf(compilationUnitsByVersion))
    ELSE IF pc = "json-loop" /\ nameIdx <= Len(opts.contracts)
    THEN IF resolveThrows(opts.contracts[nameIdx])
         THEN {}
         ELSE { jsonSelectSolcVersion(solcVersionIfExists,
                    bundleSources(sources, opts.contracts[nameIdx])) } \ {NoVersion}
    ELSE {}

\* C21 : unsupported version. A step that asks for the wrapper of a version
\* whose normalized form starts with none of 0.1., 0.2., 0.3., 0.4., 0.5.,
\* 0.6, 0.7, 0.8 ends the run with the unsupported-version error and puts no
\* entry for the version into the registry; the registry never holds such a
\* version, and a run that failed so writes nothing afterwards.
C21_UnsupportedVersionAborts ==
    /\ [] ( \A w \in Range(solcWrappersByVersion) : hasSolcWrapper(w) )
    /\ [][ \A solcVersion \in wrapperRequests :
              ~hasSolcWrapper(normalizeSolcVersion(solcVersion)) =>
                  /\ pc' = "failed"
                  /\ error' = "UnsupportedVersionError"
                  /\ normalizeSolcVersion(solcVersion) \notin Range(solcWrappersByVersion')
                  /\ artifactsDir' = artifactsDir ]_vars
    /\ [][ error = "UnsupportedVersionError" =>
              /\ pc = "failed" /\ pc' = "failed"
              /\ solcWrappersByVersion' = solcWrappersByVersion
              /\ artifactsDir' = artifactsDir ]_vars

\* the run failed for want of a wrapper after an earlier root was planned,
\* the registry holding the wrapper the gate asked for
C21_Witness ==
    /\ pc = "failed"
    /\ error = "UnsupportedVersionError"
    /\ Len(planned) >= 1

\* the artifact of a root after the independent run and after the batched
\* run, once both are over
independentArtifact(root) ==
    IF opts.shouldCompileIndependently
    THEN artifactsDir[<<root, root>>] ELSE otherModeArtifacts[<<root, root>>]

batchedArtifact(root) ==
    IF opts.shouldCompileIndependently
    THEN otherModeArtifacts[<<root, root>>] ELSE artifactsDir[<<root, root>>]

\* both runs are over, the second in the other mode
bothModesDone == run >= 2 /\ pc = "done"

\* the sources an artifact records for the unit it was compiled from : the
\* files of the unit, or the one key '' for a back-end of the family "0.1."
sourcesOfUnit(artifact) ==
    IF isSingleSourceFamily(artifact.compiler.version)
    THEN {""} ELSE artifact.compilerOutput.unit

\* the version the planner selects for a root, in its normalized form
selectedVersion(root) ==
    normalizeSolcVersion(selectSolcVersion(solcVersionIfExists, resolve(sources, root)))

\* the one unit a batched run fills for a version : the files of every
\* requested root that selected the version
batchedUnit(solcVersion) ==
    UNION { Range(resolvedContractSources(r)) :
              r \in { q \in plannedRoots : selectedVersion(q) = solcVersion } }

\* the versions whose batched unit holds the file of a root : the version
\* selected for the root, and the version selected for every requested root
\* that imports it
versionsHolding(root) ==
    { selectedVersion(r) :
        r \in { q \in plannedRoots : root \in Range(resolvedContractSources(q)) } }

\* C22 as stated : the compilerOutput persisted for each requested contract by
\* the batched run equals the one persisted by the independent run.
C22_ModesPersistEqualOutputs ==
    bothModesDone =>
        \A root \in plannedRoots :
            batchedArtifact(root).compilerOutput = independentArtifact(root).compilerOutput

\* C22 amended : for a back-end that is a pure function of its unit, the
\* independent run persists for each requested contract the output of the
\* unit of the root's own files under the version selected for the root; the
\* batched run persists the output of the unit of a version whose unit holds
\* the root's file, a smallest one of them, which is the unit of the root's
\* own version or that of a requested root that imports it; the two outputs
\* are equal whenever the batched unit of the root's own version holds the
\* root's own files and no more.
C22_ModesPersistOutputsOfTheirUnits ==
    bothModesDone =>
        \A root \in plannedRoots :
            /\ independentArtifact(root).compilerOutput =
                   [ path |-> root,
                     solcVersion |-> selectedVersion(root),
                     unit |-> Range(resolvedContractSources(root)) ]
            /\ normalizeSolcVersion(independentArtifact(root).compiler.version)
                   = selectedVersion(root)
            /\ independentArtifact(root).sources = sourcesOfUnit(independentArtifact(root))
            /\ \E solcVersion \in versionsHolding(root) :
                  /\ batchedArtifact(root).compilerOutput =
                         [ path |-> root,
                           solcVersion |-> solcVersion,
                           unit |-> batchedUnit(solcVersion) ]
                  /\ normalizeSolcVersion(batchedArtifact(root).compiler.version)
                         = solcVersion
                  /\ \A other \in versionsHolding(root) :
                        Cardinality(batchedUnit(solcVersion))
                            <= Cardinality(batchedUnit(other))
            /\ batchedArtifact(root).sources = sourcesOfUnit(batchedArtifact(root))
            /\ batchedUnit(selectedVersion(root)) = Range(resolvedContractSources(root))
                  => batchedArtifact(root).compilerOutput
                         = independentArtifact(root).compilerOutput

\* both runs are over for three requested roots : the artifact of one root is
\* the same in both modes, and the batched artifact of another comes from
\* the unit of a version that was not selected for it
C22_Witness ==
    /\ bothModesDone
    /\ Cardinality(plannedRoots) = 3
    /\ \E root \in plannedRoots :
          /\ batchedArtifact(root).compilerOutput # NoOutput
          /\ batchedArtifact(root).compilerOutput = independentArtifact(root).compilerOutput
    /\ \E root \in plannedRoots :
          normalizeSolcVersion(batchedArtifact(root).compiler.version)
              # selectedVersion(root)

\* the version the release index gives for one range, NoVersion when no
\* release satisfies it : a function of the range alone
versionForRange(range) ==
    IF \E i \in 1..Len(releases) : isGreatestSatisfying(releases[i].short, range)
    THEN LET i == CHOOSE i \in 1..Len(releases) : isGreatestSatisfying(releases[i].short, range)
         IN [releases[i].full EXCEPT !.v = FALSE]
    ELSE NoVersion

\* the files of the bundle of a name
bundleFiles(name) == Range(resolvedContractSources(name))

\* some release satisfies the pragma of every file of the bundle
jointlySatisfiable(name) ==
    \E i \in 1..Len(releases) :
        \A f \in bundleFiles(name) : satisfies(releases[i].short, sources[f])

\* the version satisfies the pragma of every file of the bundle
satisfiesBundle(solcVersion, name) ==
    \A f \in bundleFiles(name) : satisfies(solcVersion.short, sources[f])

\* C23 as stated : in the SC-file driver the version chosen for a root is
\* determined by the root's own pragma; in the JSON driver the version chosen
\* for a bundle satisfies the pragma of every file of the bundle, and the
\* run fails when no release satisfies them all.
C23_ConstraintScope ==
    /\ driver = "Compiler" =>
          \A k \in 1..Len(planned) :
              planned[k].solcVersion \in {pin, versionForRange(sources[planned[k].name])}
    /\ driver = "JSONCompiler" =>
          /\ \A k \in 1..Len(planned) :
                satisfiesBundle(planned[k].solcVersion, planned[k].name)
          /\ \A k \in 1..Len(opts.contracts) :
                (k < nameIdx \/ (k = nameIdx /\ pc \in {"json-await", "json-write"}))
                    => jointlySatisfiable(opts.contracts[k])

\* C23 amended : without a pin, in the SC-file driver the version chosen for
\* a root is the one the release index gives for the root's own pragma,
\* whatever the pragmas of the files it imports; in the JSON driver the
\* version chosen for a bundle satisfies the pragma of every file of the
\* bundle, no bundle is compiled unless some release satisfies them all,
\* and the run fails with the unsatisfiable-version error at the first
\* bundle for which none does.
C23_ConstraintScopeWithoutPin ==
    pin = NoVersion =>
        /\ driver = "Compiler" =>
              /\ \A k \in 1..Len(planned) :
                    planned[k].solcVersion = versionForRange(sources[planned[k].name])
              /\ error = "UnsatisfiableVersionError" =>
                    versionForRange(sources[opts.contracts[nameIdx]]) = NoVersion
        /\ driver = "JSONCompiler" =>
              /\ \A k \in 1..Len(planned) :
                    /\ satisfiesBundle(planned[k].solcVersion, planned[k].name)
                    /\ \A i \in 1..Len(releases) :
                          satisfiesBundle(releases[i].full, planned[k].name) =>
                              compare(releases[i].short, planned[k].solcVersion.short) <= 0
              /\ \A k \in 1..Len(opts.contracts) :
                    (k < nameIdx \/ (k = nameIdx /\ pc \in {"json-await", "json-write"}))
                        => jointlySatisfiable(opts.contracts[k])
              /\ error = "UnsatisfiableVersionError" =>
                    /\ pc = "failed"
                    /\ ~jointlySatisfiable(opts.contracts[nameIdx])
              /\ (pc = "failed" /\ error # "UnsatisfiableVersionError"
                      /\ ~resolveThrows(opts.contracts[nameIdx]))
                    => jointlySatisfiable(opts.contracts[nameIdx])

\* the JSON driver failed on a bundle each of whose files some release
\* satisfies, because no release satisfies them all
C23_Witness ==
    /\ driver = "JSONCompiler"
    /\ pin = NoVersion
    /\ error = "UnsatisfiableVersionError"
    /\ \A f \in bundleFiles(opts.contracts[nameIdx]) : satisfiable(f)

\* the versions the run compiled with
versionsUsed ==
    { compilationResults[ij].solcVersion :
        ij \in { x \in invocations : compilationResults[x].state = "fulfilled" } }

\* C24 : JSONCompiler.getCompilerOutputsAsync writes no artifact, and the
\* array it resolves to has one element per compiler version used, the
\* output of the back-end for that version.
C24_JsonOutputsPerVersion ==
    (driver = "JSONCompiler" /\ ~shouldPersist) =>
        /\ written = <<>>
        /\ artifactsDir \in InitialArtifactsDirs
        /\ returned.done =>
              /\ Len(returned.value) = Cardinality(versionsUsed)
              /\ \A k \in 1..Len(returned.value) :
                    \E ij \in invocations :
                        returned.value[k] = compilationResultOf(declared, compilationResults[ij]).output

\* the order of the depth-first visit from the root, before and after the edit
visitOrderBefore == visitIn(hashInput.importsOf, hashInput.root, <<>>)
visitOrderAfter == visitIn(reorderedProject(hashInput), hashInput.root, <<>>)

\* C25 as stated : when the import statements of one file are put into
\* another order, so that the order of the visit changes, and nothing else
\* changes, the tree hash of the root is unchanged.
C25_HashIgnoresImportOrder ==
    (hashResult.called /\ visitOrderBefore # visitOrderAfter) =>
        hashResult.after = hashResult.before

\* C25 amended : the tree hash of a root changes when the import statements
\* of a file of its closure are put into another order, whether the order of
\* the visit changes or not, and it is unchanged when the file is outside the
\* closure of the root or the order is the one it was.
C25_HashFollowsImportOrder ==
    hashResult.called =>
        ( hashResult.after # hashResult.before
            <=> ( /\ hashInput.file \in Range(visitOrderBefore)
                  /\ hashInput.reordered # hashInput.importsOf[hashInput.file] ) )

\* the hash was taken before and after the two imports of the root were
\* exchanged, which changes the order of the visit
C25_Witness ==
    /\ hashResult.called
    /\ hashInput.file = hashInput.root
    /\ Len(hashInput.reordered) = 2
    /\ visitOrderBefore # visitOrderAfter
    /\ Range(visitOrderBefore) = Range(visitOrderAfter)

\* C26 : when a run is over, the artifact <root>-<root>.json of every root
\* that was rebuilt records in compiler.version the version the planner
\* selected for that root, also when the file of the root is an import in a
\* unit of another version.
C26_ArtifactRecordsPlannedVersion ==
    (driver = "Compiler" /\ shouldPersist /\ pc = "done") =>
        \A k \in 1..Len(planned) :
            artifactsDir[<<basename(planned[k].name), basename(planned[k].name)>>]
                .compiler.version = planned[k].solcVersion

\* the files the spy resolver of a root recorded : the root and its
\* transitive imports
filesOfRoot(root) == Range(resolvedContractSources(resolve(sources, root).path))

\* C27 : unit contents. In independent mode the j-th unit of a version holds
\* exactly the files of the j-th rebuilt root that selected the version; in
\* batched mode the unit of a version holds exactly the union of the files
\* of the rebuilt roots that selected it; and, unless version selection has
\* just aborted the run, every path of contractPathToData is a key of some
\* unit.
C27_UnitContents ==
    LET plan == compilationUnitsByVersion IN
    /\ compileContractsOpts.shouldCompileIndependently =>
          \A i \in 1..Len(plan) :
              LET roots == rootsPlannedFor(plan[i].solcVersion, 1) IN
              /\ Len(plan[i].units) = Len(roots)
              /\ \A j \in 1..Len(roots) : Range(plan[i].units[j]) = filesOfRoot(roots[j])
    /\ ~compileContractsOpts.shouldCompileIndependently =>
          \A i \in 1..Len(plan) :
              LET roots == rootsPlannedFor(plan[i].solcVersion, 1) IN
              Range(plan[i].units[1]) = UNION { filesOfRoot(roots[j]) : j \in 1..Len(roots) }
    /\ error # "UnsatisfiableVersionError" =>
          \A contractPath \in DOMAIN contractPathToData : unitsHolding(contractPath) # {}

\* planning is over for three requested roots of which the library selected
\* the version of one of the others : a unit holds the files of two roots,
\* another the files of one
C27_Witness ==
    /\ planningComplete
    /\ Len(planned) = 3
    /\ DOMAIN contractPathToData = {"A", "B", "L"}
    /\ Len(compilationUnitsByVersion) = 2
    /\ \E i \in 1..2 :
          UNION { Range(compilationUnitsByVersion[i].units[j]) :
                    j \in 1..Len(compilationUnitsByVersion[i].units) } = {"B", "L"}

\* the answer of the cache gate for the root the planning loop is at
gateOfNextRoot ==
    LET contractName == opts.contracts[nameIdx] IN
    shouldCompile(solcWrappersByVersion,
        [ contractName |-> basename(contractName),
          currentArtifactIfExists |-> getContractArtifactIfExistsAsync(artifactsDir, contractName),
          sourceTreeHashHex |-> getSourceTreeHash(resolve(sources, contractName).path) ])

\* the planning loop is at a root for which the gate answers skip
nextRootIsSkipped ==
    /\ pc = "plan"
    /\ ~planningComplete
    /\ ~resolveThrows(opts.contracts[nameIdx])
    /\ ~gateOfNextRoot.throws
    /\ ~gateOfNextRoot.value

\* the requested roots the planner did not plan
rootsNotPlanned == { basename(r) : r \in Range(opts.contracts) \ plannedRoots }

\* C28 : a root for which the cache gate answers skip contributes nothing.
\* The iteration of the planning loop that skips a root leaves the
\* contract-path-to-data map, the plan, the artifacts directory and the files
\* written as they are and goes on to the next root; once planning is over,
\* no artifact file of a root that was not planned is written; and when no
\* root was planned, no binary is pre-fetched, no back-end invocation is made
\* and no file is written.
C28_SkippedRootContributesNothing ==
    /\ [][ nextRootIsSkipped =>
             /\ contractPathToData' = contractPathToData
             /\ compilationUnitsByVersion' = compilationUnitsByVersion
             /\ planned' = planned
             /\ artifactsDir' = artifactsDir
             /\ written' = written
             /\ compilationResults' = compilationResults
             /\ pc' = "plan"
             /\ nameIdx' = nameIdx + 1 ]_vars
    /\ []( pc \in {"dispatch", "write", "done"} =>
             \A k \in 1..Len(written) : written[k][1] \notin rootsNotPlanned )
    /\ []( (planningComplete /\ planned = <<>>) =>
             /\ preFetched = <<>>
             /\ invocations = {}
             /\ written = <<>>
             /\ (pc = "done" => artifactsDir \in InitialArtifactsDirs) )

\* a run is over in which the two requested roots were both skipped
C28_Witness ==
    /\ pc = "done"
    /\ run = 1
    /\ Len(opts.contracts) = 2
    /\ planned = <<>>
    /\ DOMAIN contractPathToData = {}
    /\ \A k \in 1..2 :
          getContractArtifactIfExistsAsync(artifactsDir, opts.contracts[k]) # NoArtifact

\* the output of the back-end for the k-th requested bundle
jsonOutputOf(k) == compilationResultOf(declared, compilationResults[<<k, 1>>])

\* the files the JSON driver has written once the first k bundles are
\* persisted, in order
RECURSIVE jsonPersistedUpTo(_)
jsonPersistedUpTo(k) ==
    IF k = 0 THEN <<>>
    ELSE jsonPersistedUpTo(k - 1)
            \o jsonPersistedNames(opts.contracts[k], jsonOutputOf(k).output, 1)

\* C29 : the JSON driver never consults the cache gate and never fans out.
\* In every run of JSONCompiler the invocations made are one per requested
\* bundle up to the one the loop is at, whatever the artifacts directory
\* holds; all but the one of the bundle the loop is at have been fulfilled;
\* when the run is over there is one invocation for every requested bundle
\* and none is pending; and under compileAsync the files written are those
\* of the bundles before the one the loop is at, and the first files of that
\* bundle while it is being persisted, so that when bundle k is being
\* compiled, or has failed, the artifacts of the bundles before k are in the
\* artifacts directory.
C29_JsonOneBundleAtATime ==
    (driver = "JSONCompiler") =>
        LET atBundle == \/ pc \in {"json-await", "json-write"}
                        \/ (pc = "failed" /\ error = "CompilationError")
            beingPersisted ==
                IF pc = "json-write"
                THEN SubSeq(jsonPersistedNames(opts.contracts[nameIdx],
                                               jsonOutputOf(nameIdx).output, 1),
                            1, pos[4] - 1)
                ELSE <<>>
        IN
        /\ invocations = { <<k, 1>> : k \in 1..(IF atBundle THEN nameIdx ELSE nameIdx - 1) }
        /\ compilationUnitsByVersion = <<>>
        /\ \A k \in 1..(nameIdx - 1) : compilationResults[<<k, 1>>].state = "fulfilled"
        /\ pc = "json-write" =>
              /\ shouldPersist
              /\ compilationResults[<<nameIdx, 1>>].state = "fulfilled"
        /\ pc = "json-done" => nameIdx = Len(opts.contracts) + 1
        /\ ~shouldPersist => written = <<>>
        /\ shouldPersist =>
              /\ written = jsonPersistedUpTo(nameIdx - 1) \o beingPersisted
              /\ \A k \in 1..(nameIdx - 1) :
                    \A n \in Range(jsonPersistedNames(opts.contracts[k],
                                                      jsonOutputOf(k).output, 1)) :
                        artifactsDir[n] =
                            jsonNewArtifact(n[2], planned[k].solcVersion,
                                            jsonOutputOf(k).input, jsonOutputOf(k).output)

\* in its second run, over a directory that holds the artifacts of the
\* first, compileAsync has persisted the first bundle and the compilation
\* of the second has failed
C29_Witness ==
    /\ driver = "JSONCompiler"
    /\ shouldPersist
    /\ run = 2
    /\ pc = "failed"
    /\ error = "CompilationError"
    /\ nameIdx = 2
    /\ written # <<>>
    /\ compilationResults[<<1, 1>>].state = "fulfilled"
    /\ artifactsDir[<<opts.contracts[1], opts.contracts[1]>>] # NoArtifact

\* the planning loop is at a root that resolves, so that the gate is called
gateIsCalledNext ==
    /\ driver = "Compiler"
    /\ pc = "plan"
    /\ ~planningComplete
    /\ ~resolveThrows(opts.contracts[nameIdx])

\* the artifact of the root the planning loop is at records a version for
\* which the instance holds no wrapper and no wrapper family exists
artifactOfNextRootHasNoWrapper ==
    LET currentArtifact ==
            getContractArtifactIfExistsAsync(artifactsDir, opts.contracts[nameIdx])
    IN /\ currentArtifact # NoArtifact
       /\ normalizeSolcVersion(currentArtifact.compiler.version)
              \notin Range(solcWrappersByVersion)
       /\ ~hasSolcWrapper(normalizeSolcVersion(currentArtifact.compiler.version))

\* C30 as stated : the cache gate never fails. Whatever version the existing
\* artifact of a root records, the iteration of the planning loop that calls
\* the gate does not abort the run with the unsupported-version error.
C30_GateNeverFails ==
    [][ gateIsCalledNext => ~(pc' = "failed" /\ error' = "UnsupportedVersionError") ]_vars

\* C30 amended : the cache gate fails exactly when the existing artifact
\* records a version of no wrapper family. The iteration of the planning loop
\* that calls the gate aborts the run with the unsupported-version error when
\* the artifact of the root records such a version, and in every other case
\* the gate answers : the root is skipped or goes on to version selection.
C30_GateFailsOnlyWithoutWrapper ==
    [][ gateIsCalledNext =>
          IF artifactOfNextRootHasNoWrapper
          THEN /\ pc' = "failed"
               /\ error' = "UnsupportedVersionError"
               /\ UNCHANGED << solcWrappersByVersion, contractPathToData,
                               compilationUnitsByVersion, artifactsDir >>
          ELSE /\ error' # "UnsupportedVersionError"
               /\ \/ pc' = "plan" /\ nameIdx' = nameIdx + 1
                  \/ pc' = "failed" /\ error' = "UnsatisfiableVersionError" ]_vars

\* the gate has aborted the run at its first root, whose artifact records a
\* version of no wrapper family, while no version is pinned
C30_Witness ==
    /\ driver = "Compiler"
    /\ pc = "failed"
    /\ error = "UnsupportedVersionError"
    /\ solcVersionIfExists = NoVersion
    /\ nameIdx = 1
    /\ planned = <<>>
    /\ getContractArtifactIfExistsAsync(artifactsDir, opts.contracts[1]) # NoArtifact
    /\ getContractArtifactIfExistsAsync(artifactsDir, opts.contracts[1]).compiler.version
          = UnsupportedVersion

\* the artifact of the root the planning loop is at exists, has the current
\* schema version, the configured settings and the source-tree hash of the
\* root
artifactOfNextRootIsUpToDate ==
    LET contractName == opts.contracts[nameIdx]
        currentArtifact == getContractArtifactIfExistsAsync(artifactsDir, contractName)
    IN /\ currentArtifact # NoArtifact
       /\ ~gateConditions(
              [ contractName |-> basename(contractName),
                currentArtifactIfExists |-> currentArtifact,
                sourceTreeHashHex |-> getSourceTreeHash(resolve(sources, contractName).path) ])

\* the iteration of the planning loop skips the root it is at
nextRootSkippedInStep ==
    /\ pc' = "plan"
    /\ nameIdx' = nameIdx + 1
    /\ planned' = planned
    /\ compilationUnitsByVersion' = compilationUnitsByVersion
    /\ contractPathToData' = contractPathToData

\* C31 as stated : the answer of the cache gate does not depend on the
\* version the planner would select. For an existing artifact of the current
\* schema version, equal settings and equal source-tree hash the gate answers
\* skip, whatever the pin or the greatest satisfying release is.
C31_GateIgnoresSelectedVersion ==
    [][ (gateIsCalledNext /\ artifactOfNextRootIsUpToDate) => nextRootSkippedInStep ]_vars

\* C31 amended : for an existing artifact of the current schema version,
\* equal settings and equal source-tree hash whose recorded version has a
\* wrapper family, the gate answers skip, whatever the pin or the greatest
\* satisfying release is; and a run made by a Compiler that differs from the
\* one of the run before in its pin only plans none of the roots that run
\* skipped.
C31_GateIgnoresSelectedVersionIfSupported ==
    /\ [][ ( /\ gateIsCalledNext
             /\ artifactOfNextRootIsUpToDate
             /\ ~artifactOfNextRootHasNoWrapper ) => nextRootSkippedInStep ]_vars
    /\ []( earlierRun.done => solcVersionIfExists # earlierRun.pin )
    /\ []( (earlierRun.done /\ pc \in {"dispatch", "write", "done"}) =>
             earlierRun.skipped \cap plannedRoots = {} )

\* a run under the pin 0.5.17 is over, after a run under another pin : both
\* skipped a root whose artifact records another version than the pin
C31_Witness ==
    /\ earlierRun.done
    /\ pc = "done"
    /\ solcVersionIfExists = OptPinVersion
    /\ \E r \in earlierRun.skipped :
          /\ r \in Range(opts.contracts) \ plannedRoots
          /\ artifactsDir[<<r, r>>] # NoArtifact
          /\ artifactsDir[<<r, r>>].compiler.version # normalizeSolcVersion(solcVersionIfExists)

\* C32 : with --watch the process keeps running. Once the initial build has
\* settled, of a project whose requested names all resolve, the process has
\* not exited : the watcher is listening on the paths of the project, so that
\* a change of a file can start a new build.
C32_WatchProcessKeepsRunning ==
    /\ watchState # "exited"
    /\ (watchState # "off" /\ buildsInFlight = 0 /\ ~getPathsToWatchThrows(opts.contracts)) =>
          /\ watchState = "listening"
          /\ watchedPaths = getPathsToWatch(opts.contracts)

\* the entries of getAll() that the lookup matches : .json files whose
\* basename without the extension is the basename of the lookup name without
\* the extension .json
matchesOfLookup ==
    { i \in 1..Len(resolverResult.all) :
        resolverResult.all[i].path[Len(resolverResult.all[i].path)].ext = JSON_FILE_EXTENSION
        /\ pathBasename(resolverResult.all[i].path, JSON_FILE_EXTENSION)
              = pathBasename(resolverInput.lookupContractName, JSON_FILE_EXTENSION) }

\* C33 : JSONNameResolver. resolveIfExists returns a source if and only if
\* getAll() holds a .json file whose basename without the extension equals
\* that of the lookup name; the source is that of the first such file in the
\* order of the traversal, with the absolutePath and the content of the
\* entry of getAll(); undefined is returned when no file matches.
C33_ResolveIfExistsFirstMatch ==
    resolverResult.called =>
        /\ resolverResult.resolved # NoSource <=> matchesOfLookup # {}
        /\ matchesOfLookup # {} =>
              LET first == CHOOSE i \in matchesOfLookup : \A j \in matchesOfLookup : i <= j IN
              /\ resolverResult.resolved.absolutePath = resolverResult.all[first].absolutePath
              /\ resolverResult.resolved.source = resolverResult.all[first].source

\* the lookup matched a file of a directory below the contracts directory,
\* and another file after it
C33_Witness ==
    /\ resolverResult.called
    /\ Cardinality(matchesOfLookup) = 2
    /\ Len(resolverResult.resolved.absolutePath) = 4
    /\ Len(resolverResult.all) >= 2

====
